---- MODULE Spec2Model ----
(***************************************************************************)
(* Five-card-stud table server: the per-table game state machine           *)
(* (5cardstud/server/mock-server/gameLogic.go) and the request dispatch    *)
(* with its keyed table lock (the server's main.go).                       *)
(*                                                                         *)
(* Conventions.                                                            *)
(*  - A gameState is a record.  Seat indexes are 0-based as in the Go      *)
(*    code (ActivePlayer, clientPlayer, -1 = none); the Players sequence   *)
(*    is 1-based, so seat i is Players[i+1].                               *)
(*  - Time is counted in half seconds and every stored time.Time is kept   *)
(*    relative to the present instant (Now == 0): the Tick action moves    *)
(*    the present forward by shifting all stored timestamps back.          *)
(*  - Go passes the gameState by shallow copy: the Players backing array   *)
(*    and the deck array stay shared with the stored object.  The fields   *)
(*    sharedPlayers, sharedDeck and cap track that sharing.                *)
(*  - A Go panic or a non-terminating loop is recorded in the field fault  *)
(*    ("panic", "hang"); every later operation of the same request is      *)
(*    skipped once fault is set.                                           *)
(***************************************************************************)
EXTENDS Integers, Sequences, FiniteSets, TLC

(***************************************************************************)
(* Program constants                                                       *)
(***************************************************************************)
ANTI == 1
BRINGIN == 2
LOW == 5
HIGH == 10
STARTING_PURSE == 200

\* time.Second, in clock ticks: the clock counts half seconds
TicksPerSecond == 2
BOT_TIME_LIMIT == TicksPerSecond * 1
PLAYER_TIME_LIMIT == TicksPerSecond * 30
ENDGAME_TIME_LIMIT == TicksPerSecond * 7
PLAYER_PING_TIMEOUT == TicksPerSecond * 60 * (-5)

WAITING_MESSAGE == "Waiting for more players"

STATUS_WAITING == 0
STATUS_PLAYING == 1
STATUS_FOLDED == 2
STATUS_LEFT == 3

MaxSeats == 8
DeckSize == 4 * 13

moveLookup ==
  [m \in {"FO", "CH", "BB", "BL", "BH", "CA", "RL", "RH"} |->
     CASE m = "FO" -> "FOLD"
       [] m = "CH" -> "CHECK"
       [] m = "BB" -> "POST"
       [] m \in {"BL", "BH"} -> "BET"
       [] m = "CA" -> "CALL"
       [] OTHER -> "RAISE"]

botNames == <<"Clyde", "Spock", "Kirk", "Hulk", "Fry", "Meg", "GI", "AI">>

(***************************************************************************)
(* Bounds of the model                                                     *)
(***************************************************************************)
\* human player names the clients use: the first MaxHumans of HumanNames
MaxHumans == 3
\* hands (round-1 starts) a table plays in one behaviour
MaxHands == 2
\* a client does not raise once currentBet has reached this
MaxBet == 10
\* moves performed in a behaviour
MaxMoves == 3

(***************************************************************************)
(* Time                                                                    *)
(***************************************************************************)
Now == 0

\* int(d.Seconds()): whole seconds, truncated toward zero
Seconds(d) ==
  IF d >= 0 THEN d \div TicksPerSecond ELSE -((-d) \div TicksPerSecond)

\* The zero time.Time (a seat that never pinged, a table that never set a
\* deadline) lies further back than any comparison of the code can tell:
\* a lastPing at or before the eviction cutoff, a deadline a full second ago.
ZeroPing == PLAYER_PING_TIMEOUT
ZeroExpires == -TicksPerSecond

Max(a, b) == IF a >= b THEN a ELSE b
Min(a, b) == IF a <= b THEN a ELSE b

(***************************************************************************)
(* Small helpers                                                           *)
(***************************************************************************)
Range(f) == {f[x] : x \in DOMAIN f}

RECURSIVE SumSeq(_)
SumSeq(q) == IF q = <<>> THEN 0 ELSE Head(q) + SumSeq(Tail(q))

\* Go's % : the result takes the sign of the dividend
GoMod(a, n) == IF a >= 0 THEN a % n ELSE -((-a) % n)

\* strings.ToLower / strings.ToUpper on the strings the clients send
ToLower(str) ==
  CASE str = "Den" -> "den"
    [] str = "DEN" -> "den"
    [] str = "Mock" -> "mock"
    [] str = "A" -> "a"
    [] str = "B" -> "b"
    [] str = "C" -> "c"
    [] OTHER -> str

ToUpper(str) ==
  CASE str = "fo" -> "FO"
    [] str = "ch" -> "CH"
    [] str = "bb" -> "BB"
    [] str = "bl" -> "BL"
    [] str = "ca" -> "CA"
    [] OTHER -> str

\* strings.EqualFold
EqualFold(a, b) == ToLower(a) = ToLower(b)

(***************************************************************************)
(* Cards and the visible-hand ranking                                      *)
(***************************************************************************)
\* createGameState: the deck in suit-major order
NewDeck ==
  [i \in 1..DeckSize |-> [value |-> 2 + ((i - 1) % 13), suit |-> (i - 1) \div 13]]

\* pad q with 999 up to length n
RECURSIVE Pad(_, _)
Pad(q, n) == IF Len(q) >= n THEN q ELSE Pad(Append(q, 999), n)

SortInts(q) == SortSeq(q, LAMBDA a, b : a < b)

getRank(cards) ==
  LET sets(v) == Cardinality({i \in DOMAIN cards : cards[i].value = v})
      rank == [i \in DOMAIN cards |-> 100 * (5 - sets(cards[i].value)) - cards[i].value]
      rankSuit == [i \in DOMAIN cards |->
                     100 * (5 - sets(cards[i].value)) - (cards[i].value * 4 + cards[i].suit)]
  IN  Pad(Pad(SortInts(rank), 4) \o SortInts(rankSuit), 8)

\* the less function of getPlayerWithBestVisibleHand on two ranks (player index stripped)
RankLess(a, b) ==
  \E k \in 1..8 : a[k] < b[k] /\ \A j \in 1..(k - 1) : a[j] = b[j]

(***************************************************************************)
(* Seats and tables                                                        *)
(***************************************************************************)
OK(s) == s.fault = "none"
Panic(s) == [s EXCEPT !.fault = "panic"]
Hang(s) == [s EXCEPT !.fault = "hang"]

\* i is an index of state.Players
ValidSeat(s, i) == i >= 0 /\ i < Len(s.Players)

SeatsWith(s, statuses) ==
  {i \in 0..(Len(s.Players) - 1) : s.Players[i + 1].Status \in statuses}

SumBets(s) == SumSeq([i \in DOMAIN s.Players |-> s.Players[i].Bet])
SumPurses(s) == SumSeq([i \in DOMAIN s.Players |-> s.Players[i].Purse])

\* capacity of a slice after append of one element (runtime growslice: doubling)
GrowCap(len, cap) == IF len < cap THEN cap ELSE IF cap = 0 THEN 1 ELSE 2 * cap

\* capacity of a slice built by n appends to an empty slice
RECURSIVE CapFor(_)
CapFor(n) == IF n = 0 THEN 0 ELSE GrowCap(n - 1, CapFor(n - 1))

addPlayer(s, playerName, isBot) ==
  LET newPlayer == [Name |-> IF isBot THEN playerName \o " BOT" ELSE playerName,
                    Status |-> STATUS_WAITING,
                    Bet |-> 0,
                    Move |-> "",
                    Purse |-> STARTING_PURSE,
                    isBot |-> isBot,
                    cards |-> <<>>,
                    lastPing |-> ZeroPing]
  IN  [s EXCEPT !.Players = Append(@, newPlayer),
                !.cap = GrowCap(Len(s.Players), s.cap),
                \* append past the capacity moves the seats to a new array
                !.sharedPlayers = @ /\ Len(s.Players) < s.cap]

RECURSIVE addBots(_, _, _)
\* for i := from; i < to; i++ { state.addPlayer(botNames[i], true) }
addBots(s, from, to) ==
  IF from >= to THEN s ELSE addBots(addPlayer(s, botNames[from + 1], TRUE), from + 1, to)

createGameState(playerCount, isMockGame) ==
  LET count == IF isMockGame THEN Min(Max(2, playerCount), 8) ELSE playerCount
      state == [LastResult |-> IF count < 2 THEN WAITING_MESSAGE ELSE "",
                Round |-> 0,
                Pot |-> 0,
                ActivePlayer |-> -1,
                Players |-> <<>>,
                deck |-> NewDeck,
                deckIndex |-> 0,
                currentBet |-> 0,
                gameOver |-> FALSE,
                clientPlayer |-> 0,
                table |-> "",
                wonByFolds |-> FALSE,
                isMockGame |-> isMockGame,
                moveExpires |-> ZeroExpires,
                serverName |-> "",
                \* bookkeeping of the model, see the module header
                cap |-> 0,
                sharedPlayers |-> FALSE,
                sharedDeck |-> FALSE,
                fault |-> "none",
                lobby |-> <<>>,
                moved |-> <<>>]
  IN  addBots(state, 0, count)

updateMockPlayerCount(s, playerCount) ==
  IF playerCount <= Len(s.Players) \/ playerCount > 8 THEN s
  ELSE addBots(s, Len(s.Players), playerCount)

\* sendStateToLobby is recorded with the seat count it publishes
updateLobby(s) ==
  IF ~OK(s) \/ s.isMockGame THEN s
  ELSE [s EXCEPT !.lobby = Append(@, Len(s.Players))]

setClientPlayerByName(s, playerName) ==
  IF playerName = "" THEN [s EXCEPT !.clientPlayer = -1]
  ELSE LET found == {i \in 0..(Len(s.Players) - 1) : EqualFold(s.Players[i + 1].Name, playerName)}
       IN  IF found # {} THEN [s EXCEPT !.clientPlayer = CHOOSE i \in found : \A j \in found : i <= j]
           ELSE IF Len(s.Players) < MaxSeats
                THEN updateLobby([addPlayer(s, playerName, FALSE) EXCEPT !.clientPlayer = Len(s.Players)])
                ELSE [s EXCEPT !.clientPlayer = -1]

playerPing(s) ==
  IF ~OK(s) THEN s
  ELSE IF ~ValidSeat(s, s.clientPlayer) THEN Panic(s)
  ELSE [s EXCEPT !.Players[s.clientPlayer + 1].lastPing = Now]

resetPlayerTimer(s) ==
  IF ~OK(s) THEN s
  ELSE IF ~ValidSeat(s, s.ActivePlayer) THEN Panic(s)
  ELSE [s EXCEPT !.moveExpires =
          Now + (IF s.Players[s.ActivePlayer + 1].isBot THEN BOT_TIME_LIMIT ELSE PLAYER_TIME_LIMIT)]

\* getValidMoves offering the call without looking at the purse
getValidMovesCallAlways(s) ==
  LET player == s.Players[s.ActivePlayer + 1]
      fold == IF s.currentBet > 0 \/ s.Round > 1 THEN <<"FO">> ELSE <<>>
      open == IF s.currentBet = 0
              THEN (IF s.Round = 1 THEN <<"BB">> ELSE <<"CH">>)
              ELSE <<"CA">>
      bet == IF s.Round < 3 /\ player.Purse >= LOW THEN <<"BL">>
             ELSE IF s.Round > 2 /\ player.Purse >= HIGH THEN <<"BH">> ELSE <<>>
      raise == IF player.Purse >= s.currentBet - player.Bet + LOW THEN <<"RL">> ELSE <<>>
  IN  IF s.currentBet < LOW THEN fold \o open \o bet ELSE fold \o <<"CA">> \o raise

\* the list with the raise ahead of the call
getValidMovesRaiseFirst(s) ==
  LET player == s.Players[s.ActivePlayer + 1]
      fold == IF s.currentBet > 0 \/ s.Round > 1 THEN <<"FO">> ELSE <<>>
      open == IF s.currentBet = 0
              THEN (IF s.Round = 1 THEN <<"BB">> ELSE <<"CH">>)
              ELSE IF player.Purse >= s.currentBet - player.Bet THEN <<"CA">> ELSE <<>>
      bet == IF s.Round < 3 /\ player.Purse >= LOW THEN <<"BL">>
             ELSE IF s.Round > 2 /\ player.Purse >= HIGH THEN <<"BH">> ELSE <<>>
      call == IF player.Purse >= s.currentBet - player.Bet THEN <<"CA">> ELSE <<>>
      raise == IF player.Purse >= s.currentBet - player.Bet + LOW THEN <<"RL">> ELSE <<>>
  IN  IF s.currentBet < LOW THEN fold \o open \o bet ELSE fold \o raise \o call

\* the move codes of the validMove list, in order
getValidMoves(s) ==
  LET player == s.Players[s.ActivePlayer + 1]
      fold == IF s.currentBet > 0 \/ s.Round > 1 THEN <<"FO">> ELSE <<>>
      open == IF s.currentBet = 0
              THEN (IF s.Round = 1 THEN <<"BB">> ELSE <<"CH">>)
              ELSE IF player.Purse >= s.currentBet - player.Bet THEN <<"CA">> ELSE <<>>
      bet == IF s.Round < 3 /\ player.Purse >= LOW THEN <<"BL">>
             ELSE IF s.Round > 2 /\ player.Purse >= HIGH THEN <<"BH">> ELSE <<>>
      call == IF player.Purse >= s.currentBet - player.Bet THEN <<"CA">> ELSE <<>>
      raise == IF player.Purse >= s.currentBet - player.Bet + LOW THEN <<"RL">> ELSE <<>>
  IN  IF s.currentBet < LOW THEN fold \o open \o bet ELSE fold \o call \o raise

\* nextValidPlayer moving on by one seat whatever its status
nextValidPlayerOneSeat(s) ==
  IF ~OK(s) THEN s
  ELSE resetPlayerTimer([s EXCEPT !.ActivePlayer = (s.ActivePlayer + 1) % Len(s.Players)])

nextValidPlayer(s) ==
  IF ~OK(s) THEN s
  ELSE LET n == Len(s.Players)
           \* steps of the loop after which the seat reached is PLAYING
           steps == {k \in 1..n : s.Players[((s.ActivePlayer + k) % n) + 1].Status = STATUS_PLAYING}
       IN  IF steps = {} THEN Hang(s)
           ELSE resetPlayerTimer(
                  [s EXCEPT !.ActivePlayer =
                     (s.ActivePlayer + (CHOOSE k \in steps : \A j \in steps : k <= j)) % n])

\* performMove with a fold accepted whatever the valid-move list says
performMoveFoldAlways(s, move, internalCall) ==
  LET s1 == IF internalCall THEN s ELSE playerPing(s)
  IN  IF ~OK(s1) THEN s1
      ELSE IF ~ValidSeat(s1, s1.ActivePlayer) THEN Panic(s1)
      ELSE LET a == s1.ActivePlayer
               player == s1.Players[a + 1]
               raise == IF move \in {"BH", "RH"} THEN HIGH
                        ELSE IF move \in {"BL", "RL"}
                             THEN (IF s1.currentBet = BRINGIN THEN LOW - BRINGIN ELSE LOW)
                        ELSE IF move = "BB" THEN BRINGIN
                        ELSE 0
               delta == s1.currentBet + raise - player.Bet
               moved == IF move = "FO" THEN [player EXCEPT !.Status = STATUS_FOLDED]
                        ELSE IF move # "CH"
                             THEN [player EXCEPT !.Bet = @ + delta, !.Purse = @ - delta]
                        ELSE player
           IN  IF player.Status # STATUS_PLAYING THEN s1
               ELSE IF move # "FO" /\ move \notin Range(getValidMoves(s1)) THEN s1
               ELSE nextValidPlayer(
                      [s1 EXCEPT !.Players[a + 1] = [moved EXCEPT !.Move = moveLookup[move]],
                                 !.currentBet = IF move \in {"FO", "CH"} THEN @ ELSE @ + raise,
                                 !.moved = Append(@, [seat |-> a, move |-> move])])

\* performMove with every known move code accepted
performMoveKnownCode(s, move, internalCall) ==
  LET s1 == IF internalCall THEN s ELSE playerPing(s)
  IN  IF ~OK(s1) THEN s1
      ELSE IF ~ValidSeat(s1, s1.ActivePlayer) THEN Panic(s1)
      ELSE LET a == s1.ActivePlayer
               player == s1.Players[a + 1]
               raise == IF move \in {"BH", "RH"} THEN HIGH
                        ELSE IF move \in {"BL", "RL"}
                             THEN (IF s1.currentBet = BRINGIN THEN LOW - BRINGIN ELSE LOW)
                        ELSE IF move = "BB" THEN BRINGIN
                        ELSE 0
               delta == s1.currentBet + raise - player.Bet
               moved == IF move = "FO" THEN [player EXCEPT !.Status = STATUS_FOLDED]
                        ELSE IF move # "CH"
                             THEN [player EXCEPT !.Bet = @ + delta, !.Purse = @ - delta]
                        ELSE player
           IN  IF player.Status # STATUS_PLAYING THEN s1
               ELSE IF move \notin DOMAIN moveLookup THEN s1
               ELSE nextValidPlayer(
                      [s1 EXCEPT !.Players[a + 1] = [moved EXCEPT !.Move = moveLookup[move]],
                                 !.currentBet = IF move \in {"FO", "CH"} THEN @ ELSE @ + raise,
                                 !.moved = Append(@, [seat |-> a, move |-> move])])

\* performMove with a low bet lifting the bring-in by LOW in full
performMoveFullLow(s, move, internalCall) ==
  LET s1 == IF internalCall THEN s ELSE playerPing(s)
  IN  IF ~OK(s1) THEN s1
      ELSE IF ~ValidSeat(s1, s1.ActivePlayer) THEN Panic(s1)
      ELSE LET a == s1.ActivePlayer
               player == s1.Players[a + 1]
               raise == IF move \in {"BH", "RH"} THEN HIGH
                        ELSE IF move \in {"BL", "RL"} THEN LOW
                        ELSE IF move = "BB" THEN BRINGIN
                        ELSE 0
               delta == s1.currentBet + raise - player.Bet
               moved == IF move = "FO" THEN [player EXCEPT !.Status = STATUS_FOLDED]
                        ELSE IF move # "CH"
                             THEN [player EXCEPT !.Bet = @ + delta, !.Purse = @ - delta]
                        ELSE player
           IN  IF player.Status # STATUS_PLAYING THEN s1
               ELSE IF move \notin Range(getValidMoves(s1)) THEN s1
               ELSE nextValidPlayer(
                      [s1 EXCEPT !.Players[a + 1] = [moved EXCEPT !.Move = moveLookup[move]],
                                 !.currentBet = IF move \in {"FO", "CH"} THEN @ ELSE @ + raise,
                                 !.moved = Append(@, [seat |-> a, move |-> move])])

\* performMove with a call that puts no chips in
performMoveCallShort(s, move, internalCall) ==
  LET s1 == IF internalCall THEN s ELSE playerPing(s)
  IN  IF ~OK(s1) THEN s1
      ELSE IF ~ValidSeat(s1, s1.ActivePlayer) THEN Panic(s1)
      ELSE LET a == s1.ActivePlayer
               player == s1.Players[a + 1]
               raise == IF move \in {"BH", "RH"} THEN HIGH
                        ELSE IF move \in {"BL", "RL"}
                             THEN (IF s1.currentBet = BRINGIN THEN LOW - BRINGIN ELSE LOW)
                        ELSE IF move = "BB" THEN BRINGIN
                        ELSE 0
               delta == IF move = "CA" THEN 0 ELSE s1.currentBet + raise - player.Bet
               moved == IF move = "FO" THEN [player EXCEPT !.Status = STATUS_FOLDED]
                        ELSE IF move # "CH"
                             THEN [player EXCEPT !.Bet = @ + delta, !.Purse = @ - delta]
                        ELSE player
           IN  IF player.Status # STATUS_PLAYING THEN s1
               ELSE IF move \notin Range(getValidMoves(s1)) THEN s1
               ELSE nextValidPlayer(
                      [s1 EXCEPT !.Players[a + 1] = [moved EXCEPT !.Move = moveLookup[move]],
                                 !.currentBet = IF move \in {"FO", "CH"} THEN @ ELSE @ + raise,
                                 !.moved = Append(@, [seat |-> a, move |-> move])])

performMove(s, move, internalCall) ==
  LET s1 == IF internalCall THEN s ELSE playerPing(s)
  IN  IF ~OK(s1) THEN s1
      ELSE IF ~ValidSeat(s1, s1.ActivePlayer) THEN Panic(s1)
      ELSE LET a == s1.ActivePlayer
               player == s1.Players[a + 1]
               raise == IF move \in {"BH", "RH"} THEN HIGH
                        ELSE IF move \in {"BL", "RL"}
                             THEN (IF s1.currentBet = BRINGIN THEN LOW - BRINGIN ELSE LOW)
                        ELSE IF move = "BB" THEN BRINGIN
                        ELSE 0
               delta == s1.currentBet + raise - player.Bet
               moved == IF move = "FO" THEN [player EXCEPT !.Status = STATUS_FOLDED]
                        ELSE IF move # "CH"
                             THEN [player EXCEPT !.Bet = @ + delta, !.Purse = @ - delta]
                        ELSE player
           IN  IF player.Status # STATUS_PLAYING THEN s1
               ELSE IF move \notin Range(getValidMoves(s1)) THEN s1
               ELSE nextValidPlayer(
                      [s1 EXCEPT !.Players[a + 1] = [moved EXCEPT !.Move = moveLookup[move]],
                                 !.currentBet = IF move \in {"FO", "CH"} THEN @ ELSE @ + raise,
                                 !.moved = Append(@, [seat |-> a, move |-> move])])

(***************************************************************************)
(* Dealing, first to act, end of hand, new round                           *)
(***************************************************************************)
\* shuffles the model draws from, see ShuffleKeys
MaxShuffles == 1

\* The seven rand.Shuffle passes leave the deck in some permutation of the
\* current one.  The model draws the permutation from a family: key k puts
\* the card at position (i * k) mod 53 at position i (53 is prime, so every
\* key in 1..52 is a permutation; key 1 keeps the order, 52 reverses it).
ShuffleKeys == {<<13, 1, 52, 14>>[i] : i \in 1..Min(MaxShuffles, 4)}

Shuffle(deck, k) == [i \in 1..DeckSize |-> deck[(i * k) % (DeckSize + 1)]]

\* dealCards that moves the deck index on once per pass, not once per card
dealCardsOnePerPass(s) ==
  IF ~OK(s) THEN s
  ELSE LET playing == SeatsWith(s, {STATUS_PLAYING})
       IN  IF s.deckIndex + 1 > Len(s.deck) THEN Panic(s)
           ELSE [s EXCEPT
                   !.Players = [i \in DOMAIN s.Players |->
                      IF (i - 1) \in playing
                      THEN [s.Players[i] EXCEPT !.cards = Append(@, s.deck[s.deckIndex + 1])]
                      ELSE s.Players[i]],
                   !.deckIndex = @ + 1]

dealCards(s) ==
  IF ~OK(s) THEN s
  ELSE LET playing == SeatsWith(s, {STATUS_PLAYING})
           \* cards dealt in this pass before seat i gets its card
           before(i) == Cardinality({j \in playing : j < i})
       IN  IF s.deckIndex + Cardinality(playing) > Len(s.deck) THEN Panic(s)
           ELSE [s EXCEPT
                   !.Players = [i \in DOMAIN s.Players |->
                      IF (i - 1) \in playing
                      THEN [s.Players[i] EXCEPT
                              !.cards = Append(@, s.deck[s.deckIndex + before(i - 1) + 1])]
                      ELSE s.Players[i]],
                   !.deckIndex = @ + Cardinality(playing)]

\* rank of the up cards of seat i: getRank(player.cards[1:len(player.cards)])
VisibleRank(s, i) == getRank(Tail(s.Players[i + 1].cards))

\* getPlayerWithBestVisibleHand returning the front of the sorted ranks
\* whatever highHand says
getPlayerWithBestVisibleHandFront(s, highHand) ==
  LET ps == SeatsWith(s, {STATUS_PLAYING})
      Before(i, j) ==
        \/ RankLess(VisibleRank(s, i), VisibleRank(s, j))
        \/ (~RankLess(VisibleRank(s, j), VisibleRank(s, i)) /\ i < j)
  IN  IF ps = {} \/ \E i \in ps : s.Players[i + 1].cards = <<>> THEN -2
      ELSE CHOOSE i \in ps : \A j \in ps \ {i} : Before(i, j)

\* the index the sorted ranks give, or -2 where the Go code panics (no
\* PLAYING seat: ranks[0] of an empty slice; a PLAYING seat without cards)
getPlayerWithBestVisibleHand(s, highHand) ==
  LET ps == SeatsWith(s, {STATUS_PLAYING})
      Before(i, j) == \* seat i sorts before seat j (sort.SliceStable)
        \/ RankLess(VisibleRank(s, i), VisibleRank(s, j))
        \/ (~RankLess(VisibleRank(s, j), VisibleRank(s, i)) /\ i < j)
  IN  IF ps = {} \/ \E i \in ps : s.Players[i + 1].cards = <<>> THEN -2
      ELSE IF highHand THEN CHOOSE i \in ps : \A j \in ps \ {i} : Before(i, j)
      ELSE CHOOSE i \in ps : \A j \in ps \ {i} : Before(j, i)

\* endGame that leaves Round where the hand stopped
endGameRoundKept(s, winners) ==
  LET remainingPlayers == SeatsWith(s, {STATUS_PLAYING})
      pot == s.Pot + SumBets(s)
      pivot == Cardinality(winners)
      s1 == [s EXCEPT !.gameOver = TRUE, !.ActivePlayer = -1, !.Pot = pot]
  IN  IF pivot = 0
      THEN [s1 EXCEPT !.LastResult = WAITING_MESSAGE,
                      !.moveExpires = Now + ENDGAME_TIME_LIMIT]
      ELSE [s1 EXCEPT
              !.Players = [i \in DOMAIN s.Players |->
                 IF (i - 1) \in winners
                 THEN [s.Players[i] EXCEPT !.Purse = @ + (pot \div pivot)]
                 ELSE s.Players[i]],
              !.wonByFolds = ~(Cardinality(remainingPlayers) > 1),
              !.LastResult = IF Cardinality(remainingPlayers) > 1
                             THEN "won with" ELSE "won by default",
              !.moveExpires = Now + ENDGAME_TIME_LIMIT]

\* endGame that pays the whole pot to every top-tied seat
endGameWholePot(s, winners) ==
  LET remainingPlayers == SeatsWith(s, {STATUS_PLAYING})
      pot == s.Pot + SumBets(s)
      pivot == Cardinality(winners)
      s1 == [s EXCEPT !.gameOver = TRUE, !.ActivePlayer = -1, !.Round = 5, !.Pot = pot]
  IN  IF pivot = 0
      THEN [s1 EXCEPT !.LastResult = WAITING_MESSAGE,
                      !.moveExpires = Now + ENDGAME_TIME_LIMIT]
      ELSE [s1 EXCEPT
              !.Players = [i \in DOMAIN s.Players |->
                 IF (i - 1) \in winners
                 THEN [s.Players[i] EXCEPT !.Purse = @ + pot]
                 ELSE s.Players[i]],
              !.wonByFolds = ~(Cardinality(remainingPlayers) > 1),
              !.LastResult = IF Cardinality(remainingPlayers) > 1
                             THEN "won with" ELSE "won by default",
              !.moveExpires = Now + ENDGAME_TIME_LIMIT]

\* endGame once the evaluator (cardrank, an external library) has reported
\* the seats `winners` as the top-tied ones: pivot = Cardinality(winners)
endGameWith(s, winners) ==
  LET remainingPlayers == SeatsWith(s, {STATUS_PLAYING})
      pot == s.Pot + SumBets(s)
      pivot == Cardinality(winners)
      s1 == [s EXCEPT !.gameOver = TRUE, !.ActivePlayer = -1, !.Round = 5, !.Pot = pot]
  IN  IF pivot = 0
      THEN [s1 EXCEPT !.LastResult = WAITING_MESSAGE,
                      !.moveExpires = Now + ENDGAME_TIME_LIMIT]
      ELSE [s1 EXCEPT
              !.Players = [i \in DOMAIN s.Players |->
                 IF (i - 1) \in winners
                 THEN [s.Players[i] EXCEPT !.Purse = @ + (pot \div pivot)]
                 ELSE s.Players[i]],
              !.wonByFolds = ~(Cardinality(remainingPlayers) > 1),
              !.LastResult = IF Cardinality(remainingPlayers) > 1
                             THEN "won with" ELSE "won by default",
              !.moveExpires = Now + ENDGAME_TIME_LIMIT]

\* endGame that, finding no PLAYING seat, pays the pot to the FOLDED seats
endGamePaysFolded(s) ==
  IF ~OK(s) THEN {s}
  ELSE LET remainingPlayers == SeatsWith(s, {STATUS_PLAYING})
           pool == IF remainingPlayers = {} THEN SeatsWith(s, {STATUS_FOLDED})
                   ELSE remainingPlayers
       IN  IF pool = {} THEN {endGameWith(s, {})}
           ELSE {endGameWith(s, w) : w \in (SUBSET pool) \ {{}}}

\* the outcomes of endGame: any non-empty set of the PLAYING seats may tie
\* for best; with no PLAYING seat the evaluator reports pivot 0
endGame(s) ==
  IF ~OK(s) THEN {s}
  ELSE LET remainingPlayers == SeatsWith(s, {STATUS_PLAYING})
       IN  IF remainingPlayers = {} THEN {endGameWith(s, {})}
           ELSE {endGameWith(s, w) : w \in (SUBSET remainingPlayers) \ {{}}}

\* newRound past its end-of-hand check, with shuffle key k (used on round 1)
newRoundWith(s, k) ==
  LET round == s.Round + 1
      reset(p) == IF round > 1 THEN [p EXCEPT !.Move = "", !.Bet = 0]
                  ELSE IF p.Purse > 2
                       THEN [p EXCEPT !.Status = STATUS_PLAYING, !.Purse = @ - ANTI,
                                      !.cards = <<>>, !.Move = "", !.Bet = 0]
                       ELSE [p EXCEPT !.Status = STATUS_WAITING,
                                      !.cards = <<>>, !.Move = "", !.Bet = 0]
      antes == ANTI * Cardinality({i \in DOMAIN s.Players : s.Players[i].Purse > 2})
      s1 == [s EXCEPT !.Round = round,
                      !.Pot = IF round = 1 THEN antes ELSE @ + SumBets(s),
                      !.Players = [i \in DOMAIN s.Players |-> reset(s.Players[i])],
                      !.currentBet = 0]
      s2 == IF round = 1
            THEN dealCards([s1 EXCEPT !.deck = Shuffle(@, k), !.deckIndex = 0])
            ELSE s1
      s3 == dealCards(s2)
      best == getPlayerWithBestVisibleHand(s3, round > 1)
  IN  IF ~OK(s3) THEN s3
      ELSE IF best = -2 THEN Panic(s3)
      ELSE resetPlayerTimer([s3 EXCEPT !.ActivePlayer = best])

\* newRound, the shuffle of a new hand being one of those with a key in `keys`
newRoundOf(s, keys) ==
  IF ~OK(s) THEN {s}
  ELSE IF s.Round > 0 /\ Cardinality(SeatsWith(s, {STATUS_PLAYING})) < 2 THEN endGame(s)
  ELSE {newRoundWith(s, k) : k \in (IF s.Round = 0 THEN keys ELSE {1})}

newRound(s) == newRoundOf(s, ShuffleKeys)

\* dropInactivePlayers that drops the seats that left and no other
dropInactivePlayersLeftOnly(s) ==
  IF ~OK(s) THEN s
  ELSE LET players == SelectSeq(s.Players, LAMBDA p : p.Status # STATUS_LEFT)
           s1 == [s EXCEPT !.Players = players,
                           !.cap = CapFor(Len(players)),
                           !.sharedPlayers = FALSE,
                           !.LastResult = IF Len(players) < 2 THEN WAITING_MESSAGE ELSE @]
       IN  IF Len(players) # Len(s.Players) THEN updateLobby(s1) ELSE s1

\* Drop players that left or have not pinged within the expected timeout
dropInactivePlayers(s) ==
  IF ~OK(s) THEN s
  ELSE LET cutoff == Now + PLAYER_PING_TIMEOUT
           players == SelectSeq(s.Players,
                        LAMBDA p : p.Status # STATUS_LEFT /\ (p.isBot \/ p.lastPing > cutoff))
           s1 == [s EXCEPT !.Players = players,
                           !.cap = CapFor(Len(players)),
                           !.sharedPlayers = FALSE,
                           !.LastResult = IF Len(players) < 2 THEN WAITING_MESSAGE ELSE @]
       IN  IF Len(players) # Len(s.Players) THEN updateLobby(s1) ELSE s1

\* clientLeave that folds the viewer's hand instead of marking the seat LEFT
clientLeaveFolds(s) ==
  IF ~OK(s) \/ s.clientPlayer < 0 THEN {s}
  ELSE IF ~ValidSeat(s, s.clientPlayer) THEN {Panic(s)}
  ELSE LET s1 == [s EXCEPT !.Players[s.clientPlayer + 1] =
                              [@ EXCEPT !.Status = STATUS_FOLDED, !.Move = "FOLD"]]
       IN  IF SeatsWith(s1, {STATUS_PLAYING}) = {}
           THEN {dropInactivePlayers(e) : e \in endGame(s1)}
           ELSE {s1}

clientLeave(s) ==
  IF ~OK(s) \/ s.clientPlayer < 0 THEN {s}
  ELSE IF ~ValidSeat(s, s.clientPlayer) THEN {Panic(s)}
  ELSE LET s1 == [s EXCEPT !.Players[s.clientPlayer + 1] =
                              [@ EXCEPT !.Status = STATUS_LEFT, !.Move = "LEFT"]]
       IN  IF SeatsWith(s1, {STATUS_PLAYING}) = {}
           THEN {dropInactivePlayers(e) : e \in endGame(s1)}
           ELSE {s1}

(***************************************************************************)
(* The step function                                                       *)
(***************************************************************************)
Abs(x) == IF x < 0 THEN -x ELSE x

\* rand.Intn(n)
Intn(n) == 0..(n - 1)

\* what the rand.Intn calls of one forced bot move come to, in the order of
\* the calls in runGameLogic: rand.Intn(3) > 0, rand.Intn(20) > 0,
\* rand.Intn(3) > 0, rand.Intn(3) > 0, and the value of rand.Intn(len(moves)-1)
Draws(moves) ==
  [jack : {x > 0 : x \in Intn(3)}, pair : {x > 0 : x \in Intn(20)},
   consider : {x > 0 : x \in Intn(3)}, endless : {x > 0 : x \in Intn(3)},
   pick : Intn(Max(1, Len(moves) - 1))]

\* the index into moves a bot picks when the rand.Intn calls come to r
botChoice(s, moves, cards, r) ==
  LET rank == getRank(cards)
      check == IF Len(moves) > 1 /\ moves[2] = "CH" THEN 1 ELSE 0
      early == IF s.Round < 3 /\ Len(moves) > 1 /\ r.jack
                  /\ \E i \in DOMAIN cards : cards[i].value > 10
               THEN 1 ELSE check
      paired == IF rank[1] < 300 /\ r.pair THEN 1 ELSE early
      twoPair == IF rank[1] < 200 THEN 1 ELSE paired
  IN  IF Len(moves) > 2 /\ rank[1] < 312 /\ s.currentBet < LOW THEN 2
      ELSE IF Len(moves) > 2 /\ getPlayerWithBestVisibleHand(s, TRUE) = s.ActivePlayer
              /\ s.currentBet < HIGH /\ rank[1] < 306
           THEN Len(moves) - 1
      ELSE IF Len(moves) > 1 /\ r.consider
              /\ (\/ Len(cards) > 2
                  \/ cards[1].value = cards[2].value
                  \/ Abs(cards[2].value - cards[1].value) < 3
                  \/ cards[1].value > 8
                  \/ cards[2].value > 5)
           THEN (IF s.currentBet >= 20 \/ r.endless THEN 1 ELSE r.pick + 1)
      ELSE twoPair

\* Force a move for this player or BOT
forceMove(s) ==
  LET player == s.Players[s.ActivePlayer + 1]
      moves == getValidMoves(s)
      choices == IF player.isBot
                 THEN {botChoice(s, moves, player.cards, r) : r \in Draws(moves)}
                 ELSE {IF Len(moves) > 1 /\ moves[2] = "CH" THEN 1 ELSE 0}
  IN  {IF choice >= Len(moves) THEN Panic(s) ELSE performMove(s, moves[choice + 1], TRUE) :
         choice \in choices}

\* the end-of-round condition on the active seat
roundComplete(s) ==
  \/ s.currentBet > 0 /\ s.Players[s.ActivePlayer + 1].Bet = s.currentBet
  \/ s.currentBet = 0 /\ s.Players[s.ActivePlayer + 1].Move # ""

\* runGameLogic that starts the next round only after a bet came back around
runGameLogicBetOnly(s) ==
  LET s1 == playerPing(s)
  IN  IF ~OK(s1) THEN {s1}
      ELSE IF Len(s1.Players) < 2 THEN {s1}
      ELSE IF s1.Round = 0 THEN newRound(s1)
      ELSE IF s1.gameOver
           THEN (IF Seconds(s1.moveExpires - Now) < 0
                 THEN newRound([dropInactivePlayers(s1) EXCEPT !.Round = 0, !.gameOver = FALSE])
                 ELSE {s1})
      ELSE IF Cardinality(SeatsWith(s1, {STATUS_PLAYING, STATUS_LEFT})) = 1 THEN endGame(s1)
      ELSE IF s1.ActivePlayer >= Len(s1.Players) THEN {Panic(s1)}
      ELSE IF s1.ActivePlayer > -1 /\ s1.currentBet > 0 /\ roundComplete(s1)
           THEN (IF s1.Round = 4 THEN endGame(s1) ELSE newRound(s1))
      ELSE IF ~s1.isMockGame /\ Seconds(s1.moveExpires - Now) > 0 THEN {s1}
      ELSE IF s1.ActivePlayer < 0 THEN {Panic(s1)}
      ELSE IF s1.isMockGame /\ ~s1.Players[s1.ActivePlayer + 1].isBot THEN {s1}
      ELSE IF s1.Players[s1.ActivePlayer + 1].Status = STATUS_PLAYING THEN forceMove(s1)
      ELSE {s1}

\* runGameLogic, the shuffle of a new hand being one of those with a key in `keys`
runGameLogicOf(s, keys) ==
  LET s1 == playerPing(s)
  IN  IF ~OK(s1) THEN {s1}
      ELSE IF Len(s1.Players) < 2 THEN {s1}
      ELSE IF s1.Round = 0 THEN newRoundOf(s1, keys)
      ELSE IF s1.gameOver
           THEN (IF Seconds(s1.moveExpires - Now) < 0
                 THEN newRoundOf([dropInactivePlayers(s1) EXCEPT !.Round = 0, !.gameOver = FALSE], keys)
                 ELSE {s1})
      ELSE IF Cardinality(SeatsWith(s1, {STATUS_PLAYING, STATUS_LEFT})) = 1 THEN endGame(s1)
      ELSE IF s1.ActivePlayer >= Len(s1.Players) THEN {Panic(s1)}
      ELSE IF s1.ActivePlayer > -1 /\ roundComplete(s1)
           THEN (IF s1.Round = 4 THEN endGame(s1) ELSE newRoundOf(s1, keys))
      ELSE IF ~s1.isMockGame /\ Seconds(s1.moveExpires - Now) > 0 THEN {s1}
      ELSE IF s1.ActivePlayer < 0 THEN {Panic(s1)}
      ELSE IF s1.isMockGame /\ ~s1.Players[s1.ActivePlayer + 1].isBot THEN {s1}
      ELSE IF s1.Players[s1.ActivePlayer + 1].Status = STATUS_PLAYING THEN forceMove(s1)
      ELSE {s1}

runGameLogic(s) == runGameLogicOf(s, ShuffleKeys)

(***************************************************************************)
(* The client view                                                         *)
(***************************************************************************)
suitLookup == <<"C", "D", "H", "S">>
\* valueLookup[value], value in 2..14
valueLookup == [v \in 2..14 |-> <<"2", "3", "4", "5", "6", "7", "8", "9", "T", "J", "Q", "K", "A">>[v - 1]]

cardString(c) == valueLookup[c.value] \o suitLookup[c.suit + 1]

RECURSIVE handStringOpen(_, _, _)
\* a Hand that shows every card, the first included
handStringOpen(cards, from, showFirst) ==
  IF from >= Len(cards) THEN ""
  ELSE cardString(cards[from + 1]) \o handStringOpen(cards, from + 1, showFirst)

RECURSIVE handString(_, _, _)
\* the Hand of a PLAYING seat from card index `from` (0-based) on
handString(cards, from, showFirst) ==
  IF from >= Len(cards) THEN ""
  ELSE (IF from > 0 \/ showFirst THEN cardString(cards[from + 1]) ELSE "??")
       \o handString(cards, from + 1, showFirst)

\* the response of createClientState: the JSON fields of the copy, or the
\* panic of the player loop (index -1 % n of statePlayers)
createClientState(s) ==
  LET n == Len(s.Players)
      atEnd == \/ s.gameOver
               \/ n < 2
               \/ (s.ActivePlayer > -1 /\ roundComplete(s))
      \* loop variable i runs from clientPlayer to clientPlayer + n - 1
      idx(k) == GoMod(s.clientPlayer + k, n)
      hits == {k \in 0..(n - 1) : idx(k) = s.ActivePlayer}
      active == IF atEnd THEN -1
                ELSE IF hits # {} THEN CHOOSE k \in hits : \A j \in hits : k <= j
                ELSE s.ActivePlayer
      seat(k) ==
        LET p == s.Players[idx(k) + 1]
        IN  [Name |-> p.Name, Status |-> p.Status, Bet |-> p.Bet, Move |-> p.Move,
             Purse |-> p.Purse,
             Hand |-> IF p.Status = STATUS_PLAYING
                      THEN handString(p.cards, 0,
                             idx(k) = s.clientPlayer \/ (s.gameOver /\ ~s.wonByFolds))
                      ELSE IF p.Status = STATUS_FOLDED THEN "??" ELSE ""]
  IN  IF (~s.gameOver /\ n >= 2 /\ s.ActivePlayer >= n) \/ (n > 0 /\ s.clientPlayer < 0)
      THEN [fault |-> "panic"]
      ELSE [fault |-> "none",
            LastResult |-> s.LastResult,
            Round |-> s.Round,
            Pot |-> s.Pot,
            ActivePlayer |-> active,
            MoveTime |-> Max(0, Seconds(s.moveExpires - Now)),
            ValidMoves |-> IF active = 0 THEN getValidMoves(s) ELSE <<>>,
            Players |-> [k \in 1..n |-> seat(k - 1)]]

(***************************************************************************)
(* Request handling (main.go)                                              *)
(***************************************************************************)
\* the state as stored: the model's bookkeeping fields at their rest values
Clean(s) ==
  [s EXCEPT !.sharedPlayers = FALSE, !.sharedDeck = FALSE, !.fault = "none",
            !.lobby = <<>>, !.moved = <<>>]

\* stateCopy := *value.(*GameState): a shallow copy, the arrays stay shared
CopyOf(stored) == [stored EXCEPT !.sharedPlayers = TRUE, !.sharedDeck = TRUE]

getTableState(sm, table, playerName, playerCount) ==
  LET state == IF table \in DOMAIN sm
               THEN (IF sm[table].isMockGame /\ playerCount > 1 /\ playerCount < 9
                        /\ playerCount # Len(sm[table].Players)
                     THEN (IF Len(sm[table].Players) > playerCount
                           THEN [createGameState(playerCount, TRUE) EXCEPT !.table = table]
                           ELSE updateMockPlayerCount(CopyOf(sm[table]), playerCount))
                     ELSE CopyOf(sm[table]))
               ELSE updateLobby([createGameState(playerCount, TRUE) EXCEPT !.table = table])
  IN  IF state.isMockGame THEN [state EXCEPT !.clientPlayer = 0]
      ELSE setClientPlayerByName(state, playerName)

\* the key getState locks and loads by
TableKey(table) == ToLower(IF table = "" THEN "default" ELSE table)

createRealTable(serverName, table, botCount) ==
  Clean(updateLobby([createGameState(botCount, FALSE) EXCEPT
                       !.table = table, !.serverName = serverName]))

\* JSON of a *GameState that did not go through createClientState
rawState(s) ==
  [fault |-> "none", LastResult |-> s.LastResult, Round |-> s.Round, Pot |-> s.Pot,
   ActivePlayer |-> s.ActivePlayer, MoveTime |-> 0, ValidMoves |-> <<>>,
   Players |-> [i \in DOMAIN s.Players |->
                  [Name |-> s.Players[i].Name, Status |-> s.Players[i].Status,
                   Bet |-> s.Players[i].Bet, Move |-> s.Players[i].Move,
                   Purse |-> s.Players[i].Purse, Hand |-> ""]]]

\* What a handler does between getState and unlock, from the state getState
\* returned: the set of its outcomes, each with the final state of the
\* request, whether saveState ran, and the response.
Outcome(s, saved, resp) ==
  [state |-> s, saved |-> saved /\ OK(s), resp |-> IF OK(s) THEN resp ELSE [fault |-> s.fault]]

apiMove(s0, move) ==
  IF s0.clientPlayer = s0.ActivePlayer
  THEN LET s1 == performMove(s0, ToUpper(move), FALSE)
       IN  {Outcome(s1, TRUE, IF OK(s1) THEN createClientState(s1) ELSE <<>>)}
  ELSE {Outcome(s0, FALSE, rawState(s0))}

\* the outcomes of apiState from those of the step function
apiStateFrom(s0, stepped) ==
  IF s0.clientPlayer >= 0
  THEN {Outcome(s1, TRUE, IF OK(s1) THEN createClientState(s1) ELSE <<>>) : s1 \in stepped}
  ELSE {Outcome(s0, FALSE, createClientState(s0))}

apiState(s0) == apiStateFrom(s0, runGameLogic(s0))

apiLeave(s0) ==
  IF s0.clientPlayer >= 0
  THEN {Outcome(updateLobby(s1), TRUE, [fault |-> "none", body |-> "bye"]) : s1 \in clientLeave(s0)}
  ELSE {Outcome(s0, FALSE, [fault |-> "none", body |-> "bye"])}

apiView(s0) == {Outcome(s0, FALSE, createClientState(s0))}

Handle(rq, s0) ==
  CASE rq.route = "move" -> apiMove(s0, rq.move)
    [] rq.route = "state" -> apiState(s0)
    [] rq.route = "leave" -> apiLeave(s0)
    [] rq.route = "view" -> apiView(s0)

\* What the object stored for the table shows once a request has worked on
\* its copy w: writes through the shared arrays land in the stored object.
InPlace(stored, w) ==
  [stored EXCEPT
     !.Players = IF w.sharedPlayers THEN SubSeq(w.Players, 1, Len(stored.Players)) ELSE @,
     !.deck = IF w.sharedDeck THEN w.deck ELSE @]

\* stateMap after the request's work on w, before saveState
Worked(sm, key, w) ==
  IF key \in DOMAIN sm THEN [sm EXCEPT ![key] = InPlace(sm[key], w)] ELSE sm

\* saveState: stateMap.Store(state.table, state)
saveState(sm, w) == [t \in DOMAIN sm \cup {w.table} |-> IF t = w.table THEN Clean(w) ELSE sm[t]]

(***************************************************************************)
(* The keyed table lock                                                    *)
(***************************************************************************)
Free == "free"
\* a mutex a request in flight holds
Locked == "locked"
\* a mutex held by a request that never returns
Hung == "hung"

\* KeyedMutex.Lock: key = strings.ToLower(key)
LockKey(key) == ToLower(key)

\* a LoadOrStore that stores a new mutex whether or not the key has one
LoadOrStoreFresh(mx, key) ==
  [k \in DOMAIN mx \cup {key} |-> IF k = key THEN Free ELSE mx[k]]

\* m.mutexes.LoadOrStore(key, &sync.Mutex{}): the mutex map afterwards
LoadOrStore(mx, key) ==
  IF key \in DOMAIN mx THEN mx ELSE [k \in DOMAIN mx \cup {key} |-> IF k = key THEN Free ELSE mx[k]]

\* a Lock that returns at once
CanLockAlways(mx, key) == TRUE

\* mtx.Lock() returns only once the mutex is unlocked
CanLock(mx, key) == mx[key] = Free

(***************************************************************************)
(* State                                                                   *)
(***************************************************************************)
VARIABLES
  stateMap,   \* stateMap: table key -> the stored gameState (as a reader of the stored pointer sees it)
  committed,  \* history: table key -> the gameState handed to the last saveState
  mutexes,    \* tableMutex.mutexes: key -> Free, Locked or Hung
  workers,    \* the requests in flight, one record per worker
  observed,   \* what the last /tables or /updateLobby request read
  last,       \* what the step into this state did: the request it served, or a wait
  hands,      \* hands started so far
  played,     \* moves performed so far
  gone        \* the names whose clients have sent /leave

vars == <<stateMap, committed, mutexes, workers, observed, last, hands, played, gone>>

\* workers serving requests concurrently
MaxWorkers == 2
\* requests served in a behaviour of the concurrent specification
MaxRequests == 3
\* the largest count a client asks a mock table for
MaxCount == 2
\* seats the clients fill at a real table (bots included)
MaxPlayers == 2

Workers == 1..MaxWorkers

HumanNames == <<"A", "B", "C", "D", "E", "F", "G", "H", "I">>
Names == {HumanNames[i] : i \in 1..Min(MaxHumans, 9)}

MoveCodes == {"FO", "CH", "BB", "BL", "BH", "CA", "RL", "XX", "fo"}

\* the real tables of initializeRealTables the model starts from, one per behaviour
Rooms ==
  {[serverName |-> "The Den", table |-> "den", botCount |-> 0],
   [serverName |-> "Dev Room - 1 bots", table |-> "dev1", botCount |-> 1]}

\* the table name clients send: the room of the behaviour in another case,
\* or a name no room has (getTableState then creates a mock table)
TableNames(sm) ==
  IF DOMAIN sm = {} \/ "mock" \in DOMAIN sm THEN {"Mock"}
  ELSE IF "den" \in DOMAIN sm THEN {"Den"} ELSE {"dev1"}

NoRequest ==
  [route |-> "none", viewer |-> -1, valid |-> FALSE, fault |-> "none",
   saved |-> FALSE, moved |-> <<>>, lobby |-> <<>>]

\* the value of last after a step in which only time passed
Waited == [NoRequest EXCEPT !.route = "tick"]

Idle == [pc |-> "idle"]

StateRequests(sm) ==
  {[route |-> "state", table |-> t, player |-> p, move |-> "", count |-> c] :
     t \in TableNames(sm), p \in Names \cup {""}, c \in {0} \cup 2..MaxCount}

MoveRequests(sm) ==
  {[route |-> "move", table |-> t, player |-> p, move |-> m, count |-> 0] :
     t \in TableNames(sm), p \in Names \cup {""}, m \in MoveCodes}

\* (requests without a player name come as /state and /move only)
LeaveRequests(sm) ==
  {[route |-> "leave", table |-> t, player |-> p, move |-> "", count |-> 0] :
     t \in TableNames(sm), p \in Names}

ViewRequests(sm) ==
  {[route |-> "view", table |-> t, player |-> p, move |-> "", count |-> 0] :
     t \in TableNames(sm), p \in Names}

\* the names before `name` in HumanNames
Earlier(name) ==
  {HumanNames[j] : j \in {k \in DOMAIN HumanNames : \E i \in DOMAIN HumanNames :
                                                     HumanNames[i] = name /\ k < i}}

\* bounds on what the clients send: the count parameter only goes to mock
\* tables; a name that has no seat at a real table asks for one only while
\* fewer than `seats` seats are taken and the names before it are seated
SendableUpTo(sm, rq, seats) ==
  LET key == TableKey(rq.table)
      stored == key \in DOMAIN sm
      mock == IF stored THEN sm[key].isMockGame ELSE TRUE
      seated == IF stored THEN {sm[key].Players[i].Name : i \in DOMAIN sm[key].Players} ELSE {}
  IN  /\ rq.count # 0 => mock
      /\ (stored /\ ~mock /\ rq.player # "" /\ rq.player \notin seated)
            => /\ Cardinality(seated) < seats
               /\ Earlier(rq.player) \subseteq seated

Sendable(sm, rq) == SendableUpTo(sm, rq, MaxPlayers)

\* bound on the betting the model follows: no step takes currentBet past MaxBet
Affordable(s) == s.currentBet <= MaxBet

\* 1 when the request started a hand (round 1 of a new game), else 0
Started(sm, sm1, key) ==
  IF key \in DOMAIN sm1 /\ sm1[key].Round = 1 /\ (key \notin DOMAIN sm \/ sm[key].Round # 1)
  THEN 1 ELSE 0

\* What a request did: its route, the seat of the viewer (clientPlayer),
\* whether the move code it carried was in the valid-move list of the table
\* it found, how it ended ("none": it answered; "panic": it faulted;
\* "hang": it never returned), whether it stored the table, the moves it
\* performed and the lobby publishes it made.
Report(rq, s0, out) ==
  [route |-> rq.route,
   viewer |-> s0.clientPlayer,
   valid |-> /\ rq.route = "move"
             /\ ValidSeat(s0, s0.ActivePlayer)
             /\ ToUpper(rq.move) \in Range(getValidMoves(s0)),
   fault |-> IF out.state.fault # "none" THEN out.state.fault ELSE out.resp.fault,
   saved |-> out.saved,
   moved |-> out.state.moved,
   lobby |-> out.state.lobby]

\* a stored gameState once the present has moved on by d half seconds
Later(s, d) ==
  [s EXCEPT !.moveExpires = Max(@ - d, ZeroExpires),
            !.Players = [i \in DOMAIN s.Players |->
                           [s.Players[i] EXCEPT !.lastPing = Max(@ - d, ZeroPing)]]]

\* the server five minutes or more after initializeRealTables has run; the
\* behaviour follows the tables `rooms`
InitWith(rooms) ==
  /\ stateMap = [t \in {r.table : r \in rooms} |->
                   LET r == CHOOSE x \in rooms : x.table = t
                   IN  Later(createRealTable(r.serverName, r.table, r.botCount),
                             -PLAYER_PING_TIMEOUT)]
  /\ committed = stateMap
  /\ mutexes = <<>>
  /\ workers = [w \in Workers |-> Idle]
  /\ observed = <<>>
  /\ last = NoRequest
  /\ hands = 0
  /\ played = 0
  /\ gone = {}

Init == \E r \in Rooms : InitWith({r})

(***************************************************************************)
(* Requests served one at a time: a whole handler per step                 *)
(***************************************************************************)
\* a request served while the behaviour has performed at most `budget`
\* moves and the clients fill at most `seats` seats, `Handler` giving the
\* outcomes of the handler of its route
ServeBy(rq, budget, seats, Handler(_, _)) ==
  LET key == TableKey(rq.table)
      mx == LoadOrStore(mutexes, LockKey(key))
      s0 == getTableState(stateMap, key, rq.player, rq.count)
  IN  /\ SendableUpTo(stateMap, rq, seats)
      /\ rq.player \notin gone
      /\ CanLock(mx, LockKey(key))
      /\ \E out \in Handler(rq, s0) :
           LET worked == Worked(stateMap, key, out.state)
               sm1 == IF out.saved THEN saveState(worked, out.state) ELSE worked
           IN  /\ Affordable(out.state)
               /\ hands + Started(stateMap, sm1, key) <= MaxHands
               /\ stateMap' = sm1
               /\ committed' = IF out.saved THEN saveState(committed, out.state) ELSE committed
               /\ mutexes' = [mx EXCEPT ![LockKey(key)] =
                                IF out.state.fault = "hang" THEN Hung ELSE Free]
               /\ hands' = hands + Started(stateMap, sm1, key)
               /\ played + Len(out.state.moved) <= budget
               /\ played' = played + Len(out.state.moved)
               /\ gone' = IF rq.route = "leave" /\ rq.player # "" THEN gone \cup {rq.player} ELSE gone
               /\ last' = Report(rq, s0, out)
      /\ UNCHANGED <<workers, observed>>

ServeAt(rq, budget, seats) == ServeBy(rq, budget, seats, Handle)

ServeWithin(rq, budget) == ServeAt(rq, budget, MaxPlayers)

Serve(rq) == ServeWithin(rq, MaxMoves)

ApiState == \E rq \in StateRequests(stateMap) : Serve(rq)
ApiMove == \E rq \in MoveRequests(stateMap) : Serve(rq)
ApiLeave == \E rq \in LeaveRequests(stateMap) : Serve(rq)
ApiView == \E rq \in ViewRequests(stateMap) : Serve(rq)

\* every seated human has pinged since the last wait, or has been silent
\* for five minutes
Polled(s) ==
  \A i \in DOMAIN s.Players :
    s.Players[i].isBot \/ s.Players[i].lastPing \in {Now, ZeroPing}

\* How far the model moves the clock: to one second past the move deadline
\* (only once the clients have polled since the last wait), and five minutes
\* at once (the eviction cutoff).
TickChoices(sm) ==
  UNION {(IF Polled(sm[t]) /\ sm[t].moveExpires > ZeroExpires
          THEN {sm[t].moveExpires - ZeroExpires} ELSE {})
         \cup {-PLAYER_PING_TIMEOUT} : t \in DOMAIN sm}

\* time passes, by one of the amounts in `choices`, while no request is served
TickBy(choices) ==
  /\ \A w \in Workers : workers[w].pc = "idle"
  /\ \E d \in choices :
       /\ stateMap' = [t \in DOMAIN stateMap |-> Later(stateMap[t], d)]
       /\ committed' = [t \in DOMAIN committed |-> Later(committed[t], d)]
  /\ last' = Waited
  /\ UNCHANGED <<mutexes, workers, observed, hands, played, gone>>

Tick == TickBy(TickChoices(stateMap))

Next == ApiState \/ ApiMove \/ ApiLeave \/ ApiView \/ Tick

Spec == Init /\ [][Next]_vars

(***************************************************************************)
(* Properties of the requests served one at a time                         *)
(***************************************************************************)
\* the fields of a table a rejected request must leave alone
Core(s) ==
  [Round |-> s.Round, Pot |-> s.Pot, currentBet |-> s.currentBet,
   ActivePlayer |-> s.ActivePlayer, moveExpires |-> s.moveExpires,
   seats |-> [i \in DOMAIN s.Players |->
                [Status |-> s.Players[i].Status, Bet |-> s.Players[i].Bet,
                 Purse |-> s.Players[i].Purse, Move |-> s.Players[i].Move]]]

\* C4: a /move request whose code is not in the active seat's valid-move
\* list leaves round, pot, currentBet, activeSeat, the move deadline and
\* every seat's status, bet, purse and last move as they were.
C4_InvalidMoveRejected ==
  [][(last'.route = "move" /\ ~last'.valid)
       => \A t \in DOMAIN stateMap :
            t \in DOMAIN stateMap' /\ Core(stateMap'[t]) = Core(stateMap[t])]_vars

\* a /move with an invalid code reached performMove in a hand in progress
C4_Witness ==
  /\ last.route = "move" /\ ~last.valid /\ last.saved /\ last.viewer >= 0
  /\ \E t \in DOMAIN stateMap :
       stateMap[t].Round \in 1..4 /\ stateMap[t].ActivePlayer = last.viewer

\* C5: a /move from a viewer that is not the active seat -- a spectator
\* (viewer -1) included, also while no seat is active -- performs no move,
\* leaves the table unchanged and does not fault.
C5_OnlyActiveSeatMoves ==
  [][\A t \in DOMAIN stateMap :
       (last'.route = "move"
          /\ (last'.viewer = -1 \/ last'.viewer # stateMap[t].ActivePlayer))
         => /\ last'.moved = <<>>
            /\ stateMap' = stateMap
            /\ last'.fault = "none"]_vars

\* C6: every performed move -- requested by a client, chosen for a bot or
\* forced on a timed-out human -- was, just before the step, in the
\* valid-move list of the seat that was active.
C6_PerformedMovesValid ==
  [][\A k \in DOMAIN last'.moved :
       \E t \in DOMAIN stateMap :
         /\ ValidSeat(stateMap[t], stateMap[t].ActivePlayer)
         /\ last'.moved[k].seat = stateMap[t].ActivePlayer
         /\ last'.moved[k].move \in Range(getValidMoves(stateMap[t]))]_vars

\* a /state request has just played a raise for a bot
C6_Witness ==
  /\ last.route = "state" /\ last.saved
  /\ \E k \in DOMAIN last.moved : \E t \in DOMAIN stateMap :
       /\ stateMap[t].Players[last.moved[k].seat + 1].isBot
       /\ last.moved[k].move \in {"BL", "RL", "BH", "CA", "BB"}

\* C7: in every stored table, activeSeat is -1 or the index of an existing
\* seat whose status is PLAYING.
C7_ActiveSeatPlaying ==
  \A t \in DOMAIN committed :
    \/ committed[t].ActivePlayer = -1
    \/ /\ ValidSeat(committed[t], committed[t].ActivePlayer)
       /\ committed[t].Players[committed[t].ActivePlayer + 1].Status = STATUS_PLAYING

\* C8: in every stored table, activeSeat is -1 whenever the table has fewer
\* than two seats, is in round 0 or is between hands (gameOver), and
\* activeSeat >= 0 only in a betting round 1..4 with at least two seats.
C8_ActiveSeatOnlyInBetting ==
  \A t \in DOMAIN committed :
    LET s == committed[t]
    IN  /\ (Len(s.Players) < 2 \/ s.Round = 0 \/ s.gameOver) => s.ActivePlayer = -1
        /\ s.ActivePlayer >= 0 => (s.Round \in 1..4 /\ Len(s.Players) >= 2)

\* pot plus the bets of the seats
Held(s) == s.Pot + SumBets(s)

\* the chips the seats put in during the step from table s to table s1 in
\* which the moves `moved` were performed: what the purses of the movers lost
Paid(s, s1, moved) ==
  SumSeq([k \in DOMAIN moved |->
            s.Players[moved[k].seat + 1].Purse - s1.Players[moved[k].seat + 1].Purse])

\* the seats of s and s1 are the same players in the same order
SameSeats(s, s1) ==
  /\ Len(s.Players) = Len(s1.Players)
  /\ \A i \in DOMAIN s.Players : s.Players[i].Name = s1.Players[i].Name

\* the step started round 1 of a hand
HandStarted(s, s1) == s1.Round = 1 /\ s.Round # 1

\* C9: pot plus the seats' bets is the chips committed so far in the hand:
\* a step that keeps the seats and starts no hand raises it by exactly what
\* the moves it performed took from the purses -- nothing for a step that
\* performs no move, the step that ends the hand (endGame) included.
C9_PotIsChipsCommitted ==
  [][\A t \in DOMAIN committed :
       (/\ last'.route \in {"state", "move", "leave"}
        /\ t \in DOMAIN committed'
        /\ SameSeats(committed[t], committed'[t])
        /\ ~HandStarted(committed[t], committed'[t]))
         => Held(committed'[t])
              = Held(committed[t]) + Paid(committed[t], committed'[t], last'.moved)]_vars

\* purses plus pot plus bets
Chips(s) == SumPurses(s) + s.Pot + SumBets(s)

\* C10: within a hand -- through the step that ends it -- purses + pot +
\* bets stays the same, except that the step to gameOver may lose a
\* split-pot remainder (less than the number of PLAYING seats).
C10_ChipsConserved ==
  [][\A t \in DOMAIN committed :
       (/\ last'.route \in {"state", "move", "leave"}
        /\ t \in DOMAIN committed'
        /\ SameSeats(committed[t], committed'[t])
        /\ committed[t].Round \in 1..4
        /\ ~HandStarted(committed[t], committed'[t]))
         => \/ Chips(committed'[t]) = Chips(committed[t])
            \/ /\ committed'[t].gameOver
               /\ Chips(committed'[t]) < Chips(committed[t])
               /\ Chips(committed[t]) - Chips(committed'[t])
                    < Cardinality(SeatsWith(committed[t], {STATUS_PLAYING}))]_vars

(***************************************************************************)
(* Short stacks: the den between two hands, the seats low on chips         *)
(***************************************************************************)
\* purses the two seats hold when the behaviour starts
ShortPurses == {0, 2, 3, 5, 6, 7, 11, 12}

\* The den after endGame with the showdown hold run out: A and B seated and
\* polling, holding p and q chips.  One more hand is played.
BetweenHands(p, q) ==
  LET t == addPlayer(addPlayer(createRealTable("The Den", "den", 0), "A", FALSE), "B", FALSE)
  IN  Clean([t EXCEPT !.Round = 5, !.gameOver = TRUE, !.wonByFolds = TRUE,
                      !.LastResult = "won by default",
                      !.Players = [i \in DOMAIN t.Players |->
                                     [t.Players[i] EXCEPT !.Purse = IF i = 1 THEN p ELSE q,
                                                          !.lastPing = Now]]])

InitShort ==
  \E p \in ShortPurses, q \in ShortPurses :
    /\ stateMap = [t \in {"den"} |-> BetweenHands(p, q)]
    /\ committed = stateMap
    /\ mutexes = <<>>
    /\ workers = [w \in Workers |-> Idle]
    /\ observed = <<>>
    /\ last = NoRequest
    /\ hands = MaxHands - 1
    /\ played = 0
    /\ gone = {}

\* the requests of the seated clients
Seated(requests) == {rq \in requests : rq.player # "" /\ rq.count = 0}

PlayState == \E rq \in Seated(StateRequests(stateMap)) : Serve(rq)
PlayMove == \E rq \in Seated(MoveRequests(stateMap)) : Serve(rq)

NextShort == PlayState \/ PlayMove

SpecShort == InitShort /\ [][NextShort]_vars

(***************************************************************************)
(* A whole hand: the den between two hands, full purses, no waiting        *)
(***************************************************************************)
\* moves performed in a behaviour of the whole-hand specification
HandMoves == 9

InitHand ==
  /\ stateMap = [t \in {"den"} |-> BetweenHands(STARTING_PURSE, STARTING_PURSE)]
  /\ committed = stateMap
  /\ mutexes = <<>>
  /\ workers = [w \in Workers |-> Idle]
  /\ observed = <<>>
  /\ last = NoRequest
  /\ hands = MaxHands - 1
  /\ played = 0
  /\ gone = {}

HandState == \E rq \in Seated(StateRequests(stateMap)) : ServeWithin(rq, HandMoves)
HandMove == \E rq \in Seated(MoveRequests(stateMap)) : ServeWithin(rq, HandMoves)

HandLeave == \E rq \in Seated(LeaveRequests(stateMap)) : ServeWithin(rq, HandMoves)

NextHand == HandState \/ HandMove \/ HandLeave

SpecHand == InitHand /\ [][NextHand]_vars

(***************************************************************************)
(* Dealing: three seats between two hands, the deck in one of several      *)
(* orders, the clients checking, calling and folding                       *)
(***************************************************************************)
\* the orders in which the behaviour finds the stored deck (see Shuffle)
DealKeys == {1, 17, 26, 36, 44, 52}

\* moves performed in a behaviour of the dealing specification
DealMoves == 12

\* The den after endGame with the showdown hold run out: A, B and C seated
\* and polling with full purses, the deck as the shuffle with key k left it.
BeforeDeal(k) ==
  LET t == addPlayer(addPlayer(addPlayer(createRealTable("The Den", "den", 0),
                                         "A", FALSE), "B", FALSE), "C", FALSE)
  IN  Clean([t EXCEPT !.Round = 5, !.gameOver = TRUE, !.wonByFolds = TRUE,
                      !.LastResult = "won by default",
                      !.deck = Shuffle(@, k),
                      !.Players = [i \in DOMAIN t.Players |->
                                     [t.Players[i] EXCEPT !.lastPing = Now]]])

InitDeal ==
  \E k \in DealKeys :
    /\ stateMap = [t \in {"den"} |-> BeforeDeal(k)]
    /\ committed = stateMap
    /\ mutexes = <<>>
    /\ workers = [w \in Workers |-> Idle]
    /\ observed = <<>>
    /\ last = NoRequest
    /\ hands = MaxHands - 1
    /\ played = 0
    /\ gone = {}

\* the requests that do not raise
Passive(requests) == {rq \in requests : rq.move \in {"BB", "CH", "CA", "FO"}}

\* the requests of the first client: the one that polls /state here
First(requests) == {rq \in requests : rq.player = HumanNames[1]}

DealState == \E rq \in First(Seated(StateRequests(stateMap))) : ServeWithin(rq, DealMoves)
\* the requests of the client whose seat is the active one
OnTurn(requests) ==
  {rq \in requests :
     LET key == TableKey(rq.table)
     IN  IF key \in DOMAIN stateMap /\ ValidSeat(stateMap[key], stateMap[key].ActivePlayer)
         THEN stateMap[key].Players[stateMap[key].ActivePlayer + 1].Name = rq.player
         ELSE FALSE}

DealMove == \E rq \in OnTurn(Passive(MoveRequests(stateMap))) : ServeWithin(rq, DealMoves)

NextDeal == DealState \/ DealMove

SpecDeal == InitDeal /\ [][NextDeal]_vars

(***************************************************************************)
(* A full table: seven or eight seats between two hands, every seat        *)
(* staying in the hand to the showdown                                     *)
(***************************************************************************)
\* moves performed in a behaviour of the full-table specification
FullMoves == 32

\* table t with the first n names of HumanNames seated
RECURSIVE SeatNames(_, _)
SeatNames(t, n) == IF n = 0 THEN t ELSE addPlayer(SeatNames(t, n - 1), HumanNames[n], FALSE)

\* The den after endGame with the showdown hold run out: n seats taken by
\* polling clients with full purses, the deck as the shuffle with key k left it.
BeforeFullDeal(n, k) ==
  LET t == SeatNames(createRealTable("The Den", "den", 0), n)
  IN  Clean([t EXCEPT !.Round = 5, !.gameOver = TRUE, !.wonByFolds = TRUE,
                      !.LastResult = "won by default",
                      !.deck = Shuffle(@, k),
                      !.Players = [i \in DOMAIN t.Players |->
                                     [t.Players[i] EXCEPT !.lastPing = Now]]])

InitFull ==
  \E n \in {MaxSeats - 1, MaxSeats}, k \in {1, 26} :
    /\ stateMap = [t \in {"den"} |-> BeforeFullDeal(n, k)]
    /\ committed = stateMap
    /\ mutexes = <<>>
    /\ workers = [w \in Workers |-> Idle]
    /\ observed = <<>>
    /\ last = NoRequest
    /\ hands = MaxHands - 1
    /\ played = 0
    /\ gone = {}

\* /state of the first client and of the client that takes the eighth seat
FullStateRequests ==
  {[route |-> "state", table |-> t, player |-> p, move |-> "", count |-> 0] :
     t \in TableNames(stateMap), p \in {HumanNames[1], HumanNames[MaxSeats]}}

\* the moves that keep a seat in the hand without raising
FullMoveRequests ==
  {[route |-> "move", table |-> t, player |-> p, move |-> m, count |-> 0] :
     t \in TableNames(stateMap), p \in Range(HumanNames), m \in {"BB", "CH", "CA"}}

FullState == \E rq \in FullStateRequests : ServeAt(rq, FullMoves, MaxSeats)
FullMove == \E rq \in OnTurn(FullMoveRequests) : ServeAt(rq, FullMoves, MaxSeats)

NextFull == FullState \/ FullMove

SpecFull == InitFull /\ [][NextFull]_vars

(***************************************************************************)
(* A crowded table: seven or eight seats taken, and a ninth client         *)
(***************************************************************************)
\* moves performed in a behaviour of the crowded-table specification
CrowdMoves == 2

InitCrowd ==
  \E n \in {MaxSeats - 1, MaxSeats} :
    /\ stateMap = [t \in {"den"} |-> BeforeFullDeal(n, 1)]
    /\ committed = stateMap
    /\ mutexes = <<>>
    /\ workers = [w \in Workers |-> Idle]
    /\ observed = <<>>
    /\ last = NoRequest
    /\ hands = MaxHands - 1
    /\ played = 0
    /\ gone = {}

\* what the client without a seat sends once the eight seats are taken
WatchRequests ==
  {[route |-> r, table |-> t, player |-> HumanNames[MaxSeats + 1], move |-> m, count |-> 0] :
     t \in TableNames(stateMap), r \in {"state", "view", "leave"}, m \in {""}}
  \cup {[route |-> "move", table |-> t, player |-> HumanNames[MaxSeats + 1],
         move |-> "CH", count |-> 0] : t \in TableNames(stateMap)}

CrowdState == \E rq \in FullStateRequests : ServeAt(rq, CrowdMoves, MaxSeats)
CrowdMove == \E rq \in OnTurn(FullMoveRequests) : ServeAt(rq, CrowdMoves, MaxSeats)
CrowdWatch == \E rq \in WatchRequests : ServeAt(rq, CrowdMoves, MaxSeats + 1)

NextCrowd == CrowdState \/ CrowdMove \/ CrowdWatch

SpecCrowd == InitCrowd /\ [][NextCrowd]_vars

(***************************************************************************)
(* A fixed seed: two tables without bots drawing their shuffles from the   *)
(* one random source of the process                                        *)
(***************************************************************************)
\* the tables followed here
SeedRooms ==
  {[serverName |-> "The Basement", table |-> "basement", botCount |-> 0],
   [serverName |-> "The Den", table |-> "den", botCount |-> 0]}

InitSeed == InitWith(SeedRooms)

\* The source is the process-wide one of math/rand: with a fixed seed the
\* n-th shuffle since the start of the process is a fixed permutation,
\* whichever table asks for it.
SeedKey(n) == <<13, 1, 52, 14>>[(n % 4) + 1]

\* the handlers, a new hand taking the next shuffle of the source; the
\* hands started so far are the shuffles drawn so far
HandleSeeded(rq, s0) ==
  IF rq.route = "state"
  THEN apiStateFrom(s0, runGameLogicOf(s0, {SeedKey(hands)}))
  ELSE Handle(rq, s0)

SeedStateRequests ==
  {[route |-> "state", table |-> r.table, player |-> p, move |-> "", count |-> 0] :
     r \in SeedRooms, p \in Names}

SeedMoveRequests ==
  {[route |-> "move", table |-> r.table, player |-> p, move |-> m, count |-> 0] :
     r \in SeedRooms, p \in Names, m \in {"BB", "CA", "FO"}}

SeedState == \E rq \in SeedStateRequests : ServeBy(rq, MaxMoves, MaxPlayers, HandleSeeded)
SeedMove == \E rq \in OnTurn(SeedMoveRequests) : ServeBy(rq, MaxMoves, MaxPlayers, HandleSeeded)

NextSeed == SeedState \/ SeedMove

SpecSeed == InitSeed /\ [][NextSeed]_vars

(***************************************************************************)
(* The valid-move list as a function of its inputs: the active seat of the *)
(* den with every round, bet to match, seat bet and purse up to a bound    *)
(***************************************************************************)
\* the largest bet and purse drawn
MaxStake == 16

\* the den with seat 0 to act on the inputs given
Facing(round, currentBet, bet, purse) ==
  LET t == BetweenHands(purse, STARTING_PURSE)
  IN  [t EXCEPT !.Round = round, !.gameOver = FALSE, !.wonByFolds = FALSE,
                !.LastResult = "", !.ActivePlayer = 0, !.currentBet = currentBet,
                !.Players = [i \in DOMAIN t.Players |->
                               [t.Players[i] EXCEPT !.Status = STATUS_PLAYING,
                                                    !.Bet = IF i = 1 THEN bet ELSE currentBet]]]

InitMoves ==
  \E round \in 1..4, currentBet \in 0..MaxStake, purse \in 0..MaxStake :
    \E bet \in 0..currentBet :
      /\ stateMap = [t \in {"den"} |-> Facing(round, currentBet, bet, purse)]
      /\ committed = stateMap
      /\ mutexes = <<>>
      /\ workers = [w \in Workers |-> Idle]
      /\ observed = <<>>
      /\ last = NoRequest
      /\ hands = 0
      /\ played = 0
      /\ gone = {}

\* the list is computed for the active seat and kept for inspection
ListMoves ==
  /\ observed = <<>>
  /\ observed' = <<getValidMoves(stateMap["den"])>>
  /\ UNCHANGED <<stateMap, committed, mutexes, workers, last, hands, played, gone>>

NextMoves == ListMoves

SpecMoves == InitMoves /\ [][NextMoves]_vars

(***************************************************************************)
(* The turn going round: the den with three seats taken between two hands, *)
(* a fourth client joining during the hand, seats folding and leaving      *)
(***************************************************************************)
\* seats taken when the hand starts, and moves performed in a behaviour
RingSeats == 3
RingMoves == 5

InitRing ==
  /\ stateMap = [t \in {"den"} |-> BeforeFullDeal(RingSeats, 1)]
  /\ committed = stateMap
  /\ mutexes = <<>>
  /\ workers = [w \in Workers |-> Idle]
  /\ observed = <<>>
  /\ last = NoRequest
  /\ hands = MaxHands - 1
  /\ played = 0
  /\ gone = {}

\* /state of the first client and of the client that joins late
RingStateRequests ==
  {[route |-> "state", table |-> "den", player |-> p, move |-> "", count |-> 0] :
     p \in {HumanNames[1], HumanNames[RingSeats + 1]}}

RingMoveRequests ==
  {[route |-> "move", table |-> "den", player |-> HumanNames[i], move |-> m, count |-> 0] :
     i \in 1..RingSeats, m \in {"FO", "BB", "BL", "CA", "CH", "RL"}}

\* /leave of the seats after the first
RingLeaveRequests ==
  {[route |-> "leave", table |-> "den", player |-> HumanNames[i], move |-> "", count |-> 0] :
     i \in 2..RingSeats}

RingState == \E rq \in RingStateRequests : ServeAt(rq, RingMoves, RingSeats + 1)
RingMove == \E rq \in OnTurn(RingMoveRequests) : ServeAt(rq, RingMoves, RingSeats + 1)
RingLeave == \E rq \in RingLeaveRequests : ServeAt(rq, RingMoves, RingSeats + 1)

NextRing == RingState \/ RingMove \/ RingLeave

SpecRing == InitRing /\ [][NextRing]_vars

(***************************************************************************)
(* A bot short of chips: the one-bot room between two hands with client A  *)
(* seated, the bot holding a few chips or a full purse                     *)
(***************************************************************************)
\* moves performed in a behaviour with the short bot
BotMoves == 4

\* what the bot holds when the hand starts
BotPurses == {3, 4, 7, STARTING_PURSE}

\* shuffles that left the deck: with 1 the next deal gives each seat a pair,
\* with 17 it gives no seat one
BotKeys == {1, 17}

\* The one-bot room after endGame with the showdown hold run out: the bot
\* holding p chips, A seated and polling with a full purse, the deck as the
\* shuffle with key k left it.
BotBetweenHands(p, k) ==
  LET t == addPlayer(createRealTable("Dev Room - 1 bots", "dev1", 1), "A", FALSE)
  IN  Clean([t EXCEPT !.Round = 5, !.gameOver = TRUE, !.wonByFolds = TRUE,
                      !.LastResult = "won by default",
                      !.deck = Shuffle(@, k),
                      !.Players = [i \in DOMAIN t.Players |->
                                     [t.Players[i] EXCEPT
                                        !.Purse = IF t.Players[i].isBot THEN p ELSE @,
                                        !.lastPing = Now]]])

InitBot ==
  \E p \in BotPurses, k \in BotKeys :
    /\ stateMap = [t \in {"dev1"} |-> BotBetweenHands(p, k)]
    /\ committed = stateMap
    /\ mutexes = <<>>
    /\ workers = [w \in Workers |-> Idle]
    /\ observed = <<>>
    /\ last = NoRequest
    /\ hands = MaxHands - 1
    /\ played = 0
    /\ gone = {}

BotStateRequests ==
  {[route |-> "state", table |-> "dev1", player |-> HumanNames[1], move |-> "", count |-> 0]}

BotMoveRequests ==
  {[route |-> "move", table |-> "dev1", player |-> HumanNames[1], move |-> m, count |-> 0] :
     m \in {"BB", "BL", "CA", "CH", "FO"}}

BotState == \E rq \in BotStateRequests : ServeWithin(rq, BotMoves)
BotMove == \E rq \in OnTurn(BotMoveRequests) : ServeWithin(rq, BotMoves)
BotTick == TickBy(TickChoices(stateMap))

NextBot == BotState \/ BotMove \/ BotTick

SpecBot == InitBot /\ [][NextBot]_vars

(***************************************************************************)
(* A mock table: a client asking for a table no room has, with two or      *)
(* three seats, every seat a bot and seat 0 played by the client           *)
(***************************************************************************)
\* moves performed in a behaviour at the mock table
MockMoves == 4

\* the largest count asked for here
MockCount == 3

InitMock == InitWith({r \in Rooms : r.table = "den"})

MockStateRequests ==
  {[route |-> "state", table |-> "Mock", player |-> "", move |-> "", count |-> c] :
     c \in 2..MockCount}

MockMoveRequests ==
  {[route |-> "move", table |-> "Mock", player |-> "", move |-> m, count |-> 0] :
     m \in {"BB", "CA", "CH", "FO"}}

MockState == \E rq \in MockStateRequests : ServeAt(rq, MockMoves, MaxSeats)
MockMove == \E rq \in MockMoveRequests : ServeAt(rq, MockMoves, MaxSeats)

NextMock == MockState \/ MockMove

SpecMock == InitMock /\ [][NextMock]_vars

(***************************************************************************)
(* The turn clock: the den between two hands, the clock moving to just     *)
(* before, onto and past each deadline                                     *)
(***************************************************************************)
InitClock ==
  /\ stateMap = [t \in {"den"} |-> BetweenHands(STARTING_PURSE, STARTING_PURSE)]
  /\ committed = stateMap
  /\ mutexes = <<>>
  /\ workers = [w \in Workers |-> Idle]
  /\ observed = <<>>
  /\ last = NoRequest
  /\ hands = 0
  /\ played = 0
  /\ gone = {}

\* How far the clock moves here: to the last half second before the
\* deadline of a table, onto the deadline, and to one second past it (only
\* once the clients have polled since the last wait).
ClockChoices(sm) ==
  UNION {IF Polled(sm[t]) /\ sm[t].moveExpires > ZeroExpires
         THEN {d \in {sm[t].moveExpires - 1, sm[t].moveExpires,
                      sm[t].moveExpires - ZeroExpires} : d > 0}
         ELSE {} : t \in DOMAIN sm}

ClockState == \E rq \in Seated(StateRequests(stateMap)) : Serve(rq)
ClockMove == \E rq \in OnTurn(Passive(MoveRequests(stateMap))) : Serve(rq)
ClockTick == TickBy(ClockChoices(stateMap))

NextClock == ClockState \/ ClockMove \/ ClockTick

SpecClock == InitClock /\ [][NextClock]_vars

(***************************************************************************)
(* Requests served concurrently: each handler in the steps of main.go      *)
(* (lock, load, game logic, store and unlock), and the handlers that read  *)
(* stateMap without the lock                                               *)
(***************************************************************************)
InitConc ==
  /\ stateMap = [t \in {"den"} |-> BetweenHands(STARTING_PURSE, STARTING_PURSE)]
  /\ committed = stateMap
  /\ mutexes = <<>>
  /\ workers = [w \in Workers |-> Idle]
  /\ observed = <<>>
  /\ last = NoRequest
  /\ hands = MaxHands - 1
  /\ played = 0
  /\ gone = {}

\* moves performed in a behaviour of the concurrent specification
ConcMoves == 1

\* how the client served by worker w spells the table name
Spelling(w) == IF w = 1 THEN "Den" ELSE "DEN"

\* the requests worker w may be handed
ConcRequests(sm, w) ==
  {[rq EXCEPT !.table = Spelling(w)] :
     rq \in Seated(StateRequests(sm)) \cup OnTurn(Passive(MoveRequests(sm)))
            \cup First(Seated(LeaveRequests(sm)))}

\* the key worker w locks and loads by
KeyOf(w) == TableKey(workers[w].rq.table)

\* getState, up to mtx.Lock(): the request reaches the server and
\* LoadOrStore hands it the mutex of its key
Arrive(w) ==
  /\ workers[w].pc = "idle"
  /\ \E rq \in ConcRequests(stateMap, w) :
       /\ rq.player \notin gone
       /\ workers' = [workers EXCEPT ![w] = [pc |-> "lock", rq |-> rq]]
       /\ mutexes' = LoadOrStore(mutexes, LockKey(TableKey(rq.table)))
  /\ observed' = <<>>
  /\ UNCHANGED <<stateMap, committed, last, hands, played, gone>>

\* mtx.Lock() returns, and getTableState loads the copy to work on
Enter(w) ==
  /\ workers[w].pc = "lock"
  /\ workers[w].rq.player \notin gone
  /\ CanLock(mutexes, LockKey(KeyOf(w)))
  /\ mutexes' = [mutexes EXCEPT ![LockKey(KeyOf(w))] = Locked]
  /\ workers' = [workers EXCEPT ![w] =
                   [pc |-> "work", rq |-> workers[w].rq,
                    s0 |-> getTableState(stateMap, KeyOf(w), workers[w].rq.player,
                                         workers[w].rq.count),
                    base |-> Clean(stateMap[KeyOf(w)]),
                    seen |-> committed[KeyOf(w)]]]
  /\ observed' = <<>>
  /\ UNCHANGED <<stateMap, committed, last, hands, played, gone>>

\* the handler's game logic on its copy; what it writes through the shared
\* arrays shows in the stored object at once
Step(w) ==
  /\ workers[w].pc = "work"
  /\ \E out \in Handle(workers[w].rq, workers[w].s0) :
       /\ Affordable(out.state)
       /\ played + Len(out.state.moved) <= ConcMoves
       /\ out.saved =>
            hands + Started(stateMap, saveState(stateMap, out.state), KeyOf(w)) <= MaxHands
       /\ stateMap' = Worked(stateMap, KeyOf(w), out.state)
       /\ workers' = [workers EXCEPT ![w] =
                        [pc |-> "store", rq |-> workers[w].rq, s0 |-> workers[w].s0,
                         base |-> workers[w].base, seen |-> workers[w].seen,
                         out |-> out]]
  /\ observed' = <<>>
  /\ UNCHANGED <<committed, mutexes, last, hands, played, gone>>

\* saveState (when the handler reaches it) and the deferred unlock
Finish(w) ==
  /\ workers[w].pc = "store"
  /\ LET out == workers[w].out
         rq == workers[w].rq
         sm1 == IF out.saved THEN saveState(stateMap, out.state) ELSE stateMap
     IN  /\ stateMap' = sm1
         /\ committed' = IF out.saved THEN saveState(committed, out.state) ELSE committed
         /\ mutexes' = [mutexes EXCEPT ![LockKey(KeyOf(w))] =
                          IF out.state.fault = "hang" THEN Hung ELSE Free]
         /\ hands' = hands + Started(stateMap, sm1, KeyOf(w))
         /\ played' = played + Len(out.state.moved)
         /\ gone' = IF rq.route = "leave" /\ rq.player # "" THEN gone \cup {rq.player} ELSE gone
         /\ last' = Report(rq, workers[w].s0, out)
  /\ workers' = [workers EXCEPT ![w] = Idle]
  /\ observed' = <<>>

\* what a handler that loads from stateMap without the lock reads (observed
\* holds it until the next step of a request)
Read(route) ==
  [route |-> route, tables |-> [t \in DOMAIN stateMap |-> Clean(stateMap[t])]]

\* apiTables: stateMap.Load of every real table, no lock taken
ApiTables ==
  /\ observed' = Read("tables")
  /\ observed' # observed
  /\ UNCHANGED <<stateMap, committed, mutexes, workers, last, hands, played, gone>>

\* apiUpdateLobby: stateMap.Load of every real table, no lock taken
ApiUpdateLobby ==
  /\ observed' = Read("updateLobby")
  /\ observed' # observed
  /\ UNCHANGED <<stateMap, committed, mutexes, workers, last, hands, played, gone>>

Arrives == \E w \in Workers : Arrive(w)
Enters == \E w \in Workers : Enter(w)
Steps == \E w \in Workers : Step(w)
Finishes == \E w \in Workers : Finish(w)

NextConc == Arrives \/ Enters \/ Steps \/ Finishes \/ ApiTables \/ ApiUpdateLobby

SpecConc == InitConc /\ [][NextConc]_vars

(***************************************************************************)
(* A hand under a client that keeps polling: the first client polls        *)
(* /state again and again, time keeps passing, the others move and leave   *)
(***************************************************************************)
\* the requests of the clients other than the first
Others(requests) == {rq \in requests : rq.player # HumanNames[1]}

LiveState == \E rq \in First(Seated(StateRequests(stateMap))) : Serve(rq)
LiveMove == \E rq \in OnTurn(Passive(MoveRequests(stateMap))) : Serve(rq)
LiveLeave == \E rq \in Others(Seated(LeaveRequests(stateMap))) : Serve(rq)
LiveTick == TickBy(TickChoices(stateMap))

NextLive == LiveState \/ LiveMove \/ LiveLeave \/ LiveTick

\* a /state request of the first client can be served: the lock of its
\* table is free and the step stays within the moves and hands followed
\* here (the guards of ServeAt)
PollEnabled ==
  \E rq \in First(Seated(StateRequests(stateMap))) :
    LET key == TableKey(rq.table)
        mx == LoadOrStore(mutexes, LockKey(key))
        s0 == getTableState(stateMap, key, rq.player, rq.count)
    IN  /\ Sendable(stateMap, rq)
        /\ rq.player \notin gone
        /\ CanLock(mx, LockKey(key))
        /\ \E out \in Handle(rq, s0) :
             LET worked == Worked(stateMap, key, out.state)
                 sm1 == IF out.saved THEN saveState(worked, out.state) ELSE worked
             IN  /\ Affordable(out.state)
                 /\ hands + Started(stateMap, sm1, key) <= MaxHands
                 /\ played + Len(out.state.moved) <= MaxMoves

\* the step into this state served a /state request of a seated client
JustPolled == last.route = "state" /\ last.viewer >= 0

\* weak fairness of LiveState, with its enabling condition written out:
\* the first client never stops polling
PollFair == []<>(~PollEnabled) \/ []<>JustPolled

\* the first client never stops polling and the clock never stops
SpecLive ==
  /\ InitClock
  /\ [][NextLive]_vars
  /\ PollFair
  /\ WF_vars(LiveTick)

(***************************************************************************)
(* Properties of the table lock                                            *)
(***************************************************************************)
\* worker w is between mtx.Lock() and the unlock
InStep(w) == workers[w].pc \in {"work", "store"}

\* C1: at most one request per table key (names compared without case) is
\* between its lock and its unlock at any time, whichever request created
\* the mutex of the key.
C1_OneRequestPerTable ==
  \A w1, w2 \in Workers :
    (w1 # w2 /\ InStep(w1) /\ InStep(w2)) => LockKey(KeyOf(w1)) # LockKey(KeyOf(w2))

\* one request works on the den while another, which spelled the name in
\* another case, waits for the same mutex
C1_Witness ==
  \E w1, w2 \in Workers :
    /\ workers[w1].pc = "store"
    /\ workers[w2].pc = "lock"
    /\ workers[w1].rq.table # workers[w2].rq.table
    /\ LockKey(KeyOf(w1)) = LockKey(KeyOf(w2))

\* C2: a handler that reads a table while a /state, /move or /leave step
\* on it is under way sees the whole state before the step or the whole
\* state after it: the round, pot, bets, turn and seats it reads are those
\* of one of the two.
C2_ReadersSeeWholeSteps ==
  [][\A w \in Workers :
       IF workers[w].pc = "store" /\ observed' # <<>> /\ observed' # observed
       THEN Core(observed'.tables[KeyOf(w)])
              \in {Core(workers[w].base), Core(workers[w].out.state)}
       ELSE TRUE]_vars

\* C3: a request that takes the lock after a request stored the table
\* loads what that request stored, and a request stores only onto the
\* state that was stored when it loaded: no stored step is lost.
C3_NoLostUpdate ==
  [][\A w \in Workers :
       /\ IF workers[w].pc = "lock" /\ workers'[w].pc = "work" /\ last.saved
          THEN /\ stateMap[KeyOf(w)] = committed[KeyOf(w)]
               /\ workers'[w].base = committed[KeyOf(w)]
          ELSE TRUE
       /\ IF workers[w].pc = "store" /\ workers'[w].pc = "idle" /\ workers[w].out.saved
          THEN workers[w].seen = committed[KeyOf(w)]
          ELSE TRUE]_vars

\* a request works on the table a move of an earlier request was stored in
C3_Witness ==
  \E w \in Workers :
    /\ workers[w].pc = "store"
    /\ workers[w].out.saved
    /\ last.saved /\ last.moved # <<>>
    /\ workers[w].seen = committed[KeyOf(w)]
    /\ played = 1

RoundInRange(s) == s.Round \in 0..5 /\ (s.Round = 5 <=> s.gameOver)

\* the ways round changes in one step: one up within the hand, to 5 at
\* endGame, and from 5 to 1 when the next hand starts
RoundStep(s, s1) ==
  \/ s1.Round = s.Round
  \/ s1.Round = 5
  \/ s.Round \in 0..3 /\ s1.Round = s.Round + 1
  \/ s.Round = 5 /\ s1.Round = 1

\* C12: 0 <= round <= 5, round = 5 exactly when gameOver, and within a hand
\* round goes 1 -> 2 -> 3 -> 4 one step at a time before it jumps to 5.
C12_RoundSequence ==
  /\ \A t \in DOMAIN committed : RoundInRange(committed[t])
  /\ [][\A t \in DOMAIN committed :
          /\ t \in DOMAIN committed'
          /\ RoundInRange(committed'[t])
          /\ RoundStep(committed[t], committed'[t])]_vars

\* a hand went through its four betting rounds to a showdown
C12_Witness ==
  /\ last.route = "state" /\ played >= 8
  /\ \E t \in DOMAIN committed :
       committed[t].Round = 5 /\ committed[t].gameOver /\ ~committed[t].wonByFolds

\* the step function gets as far as its end-of-round check on table s
InBetting(s) ==
  /\ Len(s.Players) >= 2
  /\ s.Round \in 1..4
  /\ ~s.gameOver
  /\ Cardinality(SeatsWith(s, {STATUS_PLAYING, STATUS_LEFT})) # 1
  /\ ValidSeat(s, s.ActivePlayer)

\* a /state request of a seated client ran the step function on table t,
\* which was in a betting round
Stepped(t) ==
  /\ last'.route = "state" /\ last'.viewer >= 0
  /\ t \in DOMAIN committed'
  /\ InBetting(committed[t])

\* C13 as stated: a /state step that finds the end-of-round predicate true
\* moves to the next round, or to endGame on round 4, in that step; round
\* never goes from r to r+1 in a step that found the predicate false.
C13_RoundAdvancesOnPredicate ==
  [][\A t \in DOMAIN committed :
       IF Stepped(t)
       THEN /\ roundComplete(committed[t])
                 => committed'[t].Round = IF committed[t].Round = 4 THEN 5
                                          ELSE committed[t].Round + 1
            /\ committed'[t].Round = committed[t].Round + 1 => roundComplete(committed[t])
       ELSE TRUE]_vars

\* C13, amended: a /state step that finds the predicate true moves to the
\* next round when the round is 1..3 and two or more seats are PLAYING, and
\* ends the hand (round 5) otherwise; round never goes from r to r+1 in a
\* step that found the predicate false.
C13_RoundAdvancesOrHandEnds ==
  [][\A t \in DOMAIN committed :
       IF Stepped(t)
       THEN /\ roundComplete(committed[t])
                 => committed'[t].Round =
                      IF committed[t].Round = 4
                         \/ Cardinality(SeatsWith(committed[t], {STATUS_PLAYING})) < 2
                      THEN 5 ELSE committed[t].Round + 1
            /\ committed'[t].Round = committed[t].Round + 1 => roundComplete(committed[t])
       ELSE TRUE]_vars

\* a /state request has just dealt the last card: round 4 begins
C13_Witness ==
  /\ last.route = "state" /\ last.moved = <<>>
  /\ \E t \in DOMAIN committed :
       /\ committed[t].Round = 4 /\ committed[t].currentBet = 0
       /\ \A i \in DOMAIN committed[t].Players : committed[t].Players[i].Move = ""

\* a betting round of table s has begun and no seat has acted in it
RoundStart(s) ==
  /\ s.Round \in 1..4 /\ ~s.gameOver /\ s.currentBet = 0
  /\ \A i \in DOMAIN s.Players : s.Players[i].Move = ""

\* the up cards of seat i: all but the first card dealt
UpCards(s, i) == Tail(s.Players[i + 1].cards)

\* card c is lower than card d: by value, then by suit (C < D < H < S)
LowerCard(c, d) == c.value < d.value \/ (c.value = d.value /\ c.suit < d.suit)

\* the tuple a comes before the tuple b in lexicographic order
RECURSIVE LexLess(_, _)
LexLess(a, b) ==
  IF a = <<>> \/ b = <<>> THEN FALSE
  ELSE IF Head(a) # Head(b) THEN Head(a) < Head(b)
  ELSE LexLess(Tail(a), Tail(b))

\* C14: when a round begins the active seat is a PLAYING seat; in round 1
\* it shows the lowest up card (by value, then by suit) of the PLAYING
\* seats, in rounds 2..4 its up cards have the lexicographically smallest
\* rank tuple of the PLAYING seats.
C14_FirstToAct ==
  \A t \in DOMAIN committed :
    LET s == committed[t]
        playing == SeatsWith(s, {STATUS_PLAYING})
        a == s.ActivePlayer
    IN  RoundStart(s) =>
          /\ a \in playing
          /\ \A j \in playing \ {a} :
               IF s.Round = 1
               THEN LowerCard(UpCards(s, a)[1], UpCards(s, j)[1])
               ELSE LexLess(getRank(UpCards(s, a)), getRank(UpCards(s, j)))

\* round 3 begins with one seat folded and a pair showing at the active seat
C14_Witness ==
  \E t \in DOMAIN committed :
    LET s == committed[t]
    IN  /\ RoundStart(s) /\ s.Round = 3
        /\ SeatsWith(s, {STATUS_FOLDED}) # {}
        /\ ValidSeat(s, s.ActivePlayer)
        /\ Len(UpCards(s, s.ActivePlayer)) = 3
        /\ getRank(UpCards(s, s.ActivePlayer))[1] < 400

\* the cards the seats of table s hold, seat by seat, in one sequence
RECURSIVE CardsOf(_, _)
CardsOf(s, n) == IF n = 0 THEN <<>> ELSE CardsOf(s, n - 1) \o s.Players[n].cards

\* no card occurs twice in the sequence q
Distinct(q) == Cardinality(Range(q)) = Len(q)

\* C15: the cards the seats hold are pairwise distinct, the deck is a
\* permutation of the 52 cards, the deck index stays within the deck and
\* goes down only when a hand starts (the reshuffle at round 1).
C15_CardsDistinct ==
  /\ \A t \in DOMAIN stateMap :
       /\ Distinct(CardsOf(stateMap[t], Len(stateMap[t].Players)))
       /\ Len(stateMap[t].deck) = DeckSize
       /\ Range(stateMap[t].deck) = Range(NewDeck)
       /\ stateMap[t].deckIndex \in 0..DeckSize
  /\ [][\A t \in DOMAIN stateMap :
          /\ t \in DOMAIN stateMap'
          /\ Distinct(CardsOf(stateMap'[t], Len(stateMap'[t].Players)))
          /\ Len(stateMap'[t].deck) = DeckSize
          /\ Range(stateMap'[t].deck) = Range(NewDeck)
          /\ stateMap'[t].deckIndex \in 0..DeckSize
          /\ (stateMap'[t].deckIndex < stateMap[t].deckIndex
                => HandStarted(stateMap[t], stateMap'[t]))]_vars

\* eight seats hold five cards each: forty cards dealt
C15_Witness ==
  \E t \in DOMAIN stateMap :
    /\ Len(stateMap[t].Players) = MaxSeats
    /\ \A i \in DOMAIN stateMap[t].Players : Len(stateMap[t].Players[i].cards) = 5
    /\ stateMap[t].deckIndex = 5 * MaxSeats

\* the step from table s to table s1 ended the hand
HandEnded(s, s1) == ~s.gameOver /\ s1.gameOver /\ SameSeats(s, s1)

\* from s to s1 the seats in `winners` gained `share` chips each and no
\* other purse changed
Awarded(s, s1, winners, share) ==
  \A i \in DOMAIN s.Players :
    s1.Players[i].Purse = s.Players[i].Purse + (IF (i - 1) \in winners THEN share ELSE 0)

\* C16: at a showdown with two or more PLAYING seats, some non-empty set of
\* PLAYING seats (the top-tied seats of the evaluator, pivot of them) gains
\* floor(pot / pivot) each, pot being the pot plus all bets of the last
\* round; no other purse changes and wonByFolds is false.
C16_ShowdownSplit ==
  [][\A t \in DOMAIN committed :
       IF /\ t \in DOMAIN committed'
          /\ HandEnded(committed[t], committed'[t])
          /\ Cardinality(SeatsWith(committed[t], {STATUS_PLAYING})) >= 2
       THEN /\ ~committed'[t].wonByFolds
            /\ \E winners \in (SUBSET SeatsWith(committed[t], {STATUS_PLAYING})) \ {{}} :
                 Awarded(committed[t], committed'[t], winners,
                         (committed[t].Pot + SumBets(committed[t])) \div Cardinality(winners))
       ELSE TRUE]_vars

\* a showdown of two seats has split an odd pot: one chip went to nobody
C16_Witness ==
  \E t \in DOMAIN committed :
    /\ committed[t].gameOver /\ ~committed[t].wonByFolds
    /\ committed[t].Pot % 2 = 1
    /\ Cardinality(SeatsWith(committed[t], {STATUS_PLAYING})) = 2
    /\ SumPurses(committed[t]) = Len(committed[t].Players) * STARTING_PURSE - 1

\* C17: when a hand ends with at most one PLAYING seat, wonByFolds is true
\* and the remaining seat gains the whole pot, the bets of the folded and
\* departed seats included; no other purse changes.
C17_LastSeatTakesPot ==
  [][\A t \in DOMAIN committed :
       IF /\ t \in DOMAIN committed'
          /\ committed[t].Round \in 1..4 /\ committed'[t].gameOver
          /\ Cardinality(SeatsWith(committed'[t], {STATUS_PLAYING})) <= 1
       THEN /\ committed'[t].wonByFolds
            /\ SameSeats(committed[t], committed'[t])
                 => Awarded(committed[t], committed'[t],
                            SeatsWith(committed'[t], {STATUS_PLAYING}),
                            committed[t].Pot + SumBets(committed[t]))
       ELSE TRUE]_vars

\* the part of C17 about a hand that ends with exactly one PLAYING seat
C17_OneSeatTakesPot ==
  [][\A t \in DOMAIN committed :
       IF /\ t \in DOMAIN committed'
          /\ HandEnded(committed[t], committed'[t])
          /\ Cardinality(SeatsWith(committed'[t], {STATUS_PLAYING})) = 1
       THEN /\ committed'[t].wonByFolds
            /\ Awarded(committed[t], committed'[t], SeatsWith(committed'[t], {STATUS_PLAYING}),
                       committed[t].Pot + SumBets(committed[t]))
       ELSE TRUE]_vars

(***************************************************************************)
(* Properties of the turn clock                                            *)
(***************************************************************************)
\* the step function, run on table s, gets past its end-of-round check
\* with a PLAYING seat active
AwaitsMove(s) ==
  /\ ~s.isMockGame
  /\ InBetting(s)
  /\ ~roundComplete(s)
  /\ s.Players[s.ActivePlayer + 1].Status = STATUS_PLAYING

\* C18: on a real table, a /state step that finds a human active and the
\* move deadline expired performs one move for that seat -- CH if CH is in
\* its valid-move list, FO otherwise -- and the active seat moves on.
C18_ForcedCheckOrFold ==
  [][\A t \in DOMAIN committed :
       IF /\ last'.route = "state" /\ last'.viewer >= 0
          /\ t \in DOMAIN committed'
          /\ AwaitsMove(committed[t])
          /\ ~committed[t].Players[committed[t].ActivePlayer + 1].isBot
          /\ committed[t].moveExpires <= Now
       THEN /\ last'.moved =
                 <<[seat |-> committed[t].ActivePlayer,
                    move |-> IF "CH" \in Range(getValidMoves(committed[t]))
                             THEN "CH" ELSE "FO"]>>
            /\ committed'[t].ActivePlayer # committed[t].ActivePlayer
       ELSE TRUE]_vars

\* the active seat, every bet and every status of s are those of s1
TurnKept(s, s1) ==
  /\ s1.ActivePlayer = s.ActivePlayer
  /\ s1.currentBet = s.currentBet
  /\ Len(s1.Players) >= Len(s.Players)
  /\ \A i \in DOMAIN s.Players :
       /\ s1.Players[i].Bet = s.Players[i].Bet
       /\ s1.Players[i].Status = s.Players[i].Status

\* C19: on a real table, a /state step taken strictly before the move
\* deadline of the active seat forces no move: it leaves the active seat,
\* the bets and the statuses as they were.
C19_NoForcedMoveBeforeDeadline ==
  [][\A t \in DOMAIN committed :
       (/\ Stepped(t)
        /\ AwaitsMove(committed[t])
        /\ Now < committed[t].moveExpires)
       => /\ last'.moved = <<>>
          /\ TurnKept(committed[t], committed'[t])]_vars

\* the hand that ended in s is still held in s1: same round, flags, pot,
\* deadline and seats
HoldKept(s, s1) ==
  /\ s1.Round = s.Round
  /\ s1.gameOver = s.gameOver
  /\ s1.Pot = s.Pot
  /\ s1.ActivePlayer = s.ActivePlayer
  /\ s1.moveExpires = s.moveExpires
  /\ Len(s1.Players) >= Len(s.Players)
  /\ \A i \in DOMAIN s.Players :
       /\ s1.Players[i].Name = s.Players[i].Name
       /\ s1.Players[i].Purse = s.Players[i].Purse
       /\ s1.Players[i].Bet = s.Players[i].Bet
       /\ s1.Players[i].Status = s.Players[i].Status

\* a table of two or more seats holding an ended hand
Holding(s) == Len(s.Players) >= 2 /\ s.gameOver /\ s.Round = 5

\* C20: while a table holds an ended hand, a /state step before the
\* deadline changes nothing, and a /state step at or after the deadline
\* drops the seats that left, clears gameOver and starts round 1 in that
\* step.
C20_HoldThenNewHand ==
  [][\A t \in DOMAIN committed :
       (/\ last'.route = "state" /\ last'.viewer >= 0
        /\ t \in DOMAIN committed'
        /\ Holding(committed[t]))
       => IF Now < committed[t].moveExpires
          THEN HoldKept(committed[t], committed'[t])
          ELSE /\ ~committed'[t].gameOver
               /\ committed'[t].Round = 1
               /\ SeatsWith(committed'[t], {STATUS_LEFT}) = {}]_vars

(***************************************************************************)
(* Properties of progress                                                  *)
(***************************************************************************)
\* a hand is under way at the den
HandUnderWay ==
  /\ "den" \in DOMAIN committed
  /\ Len(committed["den"].Players) >= 2
  /\ committed["den"].Round \in 1..4

\* the hand at the den is over
HandOver ==
  /\ "den" \in DOMAIN committed
  /\ committed["den"].gameOver
  /\ committed["den"].Round = 5

\* the behaviour has used up the moves or the hands the model follows
Exhausted == played >= MaxMoves \/ hands >= MaxHands

\* C21: while a seated client keeps polling /state and time keeps passing,
\* a hand under way reaches gameOver (round 5), whatever the other seats
\* send.
C21_HandReachesGameOver == (HandUnderWay /\ ~Exhausted) ~> (HandOver \/ Exhausted)

\* C22: every /state, /move and /leave request returns and releases the
\* lock of its table: no request is left looking for the next seat, and no
\* mutex stays held.
C22_RequestsTerminate ==
  /\ last.fault # "hang"
  /\ \A k \in DOMAIN mutexes : mutexes[k] # Hung

(***************************************************************************)
(* Properties of the seats                                                 *)
(***************************************************************************)
SeatNamesOf(s) == [i \in DOMAIN s.Players |-> s.Players[i].Name]

\* seat i (from 1) of s goes when the next hand starts: it left, or it is a
\* human seat last seen five minutes ago or longer; the viewer of the
\* request, seat v (from 0), has just been seen
Purged(s, i, v) ==
  \/ s.Players[i].Status = STATUS_LEFT
  \/ /\ ~s.Players[i].isBot
     /\ i # v + 1
     /\ s.Players[i].lastPing <= Now + PLAYER_PING_TIMEOUT

\* the names of the seats of s that stay, in seat order
StayingNames(s, v) ==
  LET RECURSIVE from(_)
      from(i) == IF i > Len(s.Players) THEN <<>>
                 ELSE (IF Purged(s, i, v) THEN <<>> ELSE <<s.Players[i].Name>>) \o from(i + 1)
  IN  from(1)

\* the step served a /state of a seated viewer that found table t holding
\* an ended hand and started the next one
NewHandAfterGameOver(t) ==
  /\ last'.route = "state" /\ last'.viewer >= 0 /\ last'.fault = "none"
  /\ t \in DOMAIN committed'
  /\ committed[t].gameOver /\ Len(committed[t].Players) >= 2
  /\ last'.viewer < Len(committed[t].Players)
  /\ ~committed'[t].gameOver /\ committed'[t].Round = 1

LeftBy(t, v) ==
  /\ last'.route = "leave" /\ last'.viewer = v
  /\ t \in DOMAIN stateMap /\ t \in DOMAIN stateMap'
  /\ ValidSeat(stateMap[t], v)
  /\ stateMap[t].Players[v + 1].Status # STATUS_LEFT

\* the hand of s goes on in s1 with seat v (from 0) marked LEFT and in its
\* place, every other seat as it was
GoesOnWithout(s, s1, v) ==
  /\ s1.Round = s.Round /\ s1.gameOver = s.gameOver
  /\ s1.ActivePlayer = s.ActivePlayer
  /\ s1.Pot = s.Pot /\ s1.currentBet = s.currentBet
  /\ Len(s1.Players) = Len(s.Players)
  /\ s1.Players[v + 1].Status = STATUS_LEFT
  /\ s1.Players[v + 1].Name = s.Players[v + 1].Name
  /\ \A i \in DOMAIN s.Players :
       i # v + 1 => /\ s1.Players[i].Status = s.Players[i].Status
                    /\ s1.Players[i].Bet = s.Players[i].Bet
                    /\ s1.Players[i].Purse = s.Players[i].Purse

\* C24: a /leave by a seated viewer ends the hand in that request
\* (gameOver, round 5, no active seat) when no PLAYING seat remains, and
\* otherwise leaves the seat in the list with status LEFT while the hand
\* goes on for the others.
C24_LeaveMarksOrEnds ==
  [][\A t \in DOMAIN stateMap : \A v \in 0..(MaxSeats - 1) :
       LeftBy(t, v)
         => IF SeatsWith(stateMap[t], {STATUS_PLAYING}) \subseteq {v}
            THEN /\ stateMap'[t].gameOver
                 /\ stateMap'[t].Round = 5
                 /\ stateMap'[t].ActivePlayer = -1
            ELSE GoesOnWithout(stateMap[t], stateMap'[t], v)]_vars

\* a seat has left a hand that goes on for a seat still playing
C24_Witness ==
  /\ last.route = "leave" /\ last.viewer >= 0 /\ last.saved
  /\ \E t \in DOMAIN stateMap :
       /\ stateMap[t].Round \in 1..4 /\ ~stateMap[t].gameOver
       /\ SeatsWith(stateMap[t], {STATUS_LEFT}) # {}
       /\ SeatsWith(stateMap[t], {STATUS_PLAYING}) # {}

\* C25: a table never holds more than eight seats, and a request that
\* names a new player at a table of eight seats is served as a spectator:
\* no seat is appended, the viewer is -1, the table is left as it was and
\* the request answers without a fault.
C25_NinthClientSpectates ==
  /\ \A t \in DOMAIN stateMap : Len(stateMap[t].Players) <= MaxSeats
  /\ [][\A t \in DOMAIN stateMap :
          (/\ last'.route \in {"state", "view"}
           /\ Len(stateMap[t].Players) = MaxSeats
           /\ last'.viewer = -1)
          => /\ t \in DOMAIN stateMap'
             /\ stateMap'[t] = stateMap[t]
             /\ last'.fault = "none"]_vars

\* the lobby publishes worker w has made since it took the lock
PublishedBy(w) ==
  IF workers[w].pc = "work" THEN workers[w].s0.lobby
  ELSE IF workers[w].pc = "store" THEN workers[w].out.state.lobby
  ELSE <<>>

\* C26: no lobby publish is made while the lock of the table is held: a
\* request between its lock and its unlock has published nothing.
C26_PublishAfterUnlock ==
  \A w \in Workers : InStep(w) => PublishedBy(w) = <<>>

(***************************************************************************)
(* Properties of the views                                                 *)
(***************************************************************************)
\* a card to put in the place of a hole card
BlankCard == [value |-> 2, suit |-> 0]

\* table s as seat v (from 0) views it
ViewedBy(s, v) == [s EXCEPT !.clientPlayer = v]

\* s with the hole card of every seat other than v (from 0) replaced by c
Masked(s, v, c) ==
  [s EXCEPT !.Players =
     [i \in DOMAIN s.Players |->
        IF i # v + 1 /\ Len(s.Players[i].cards) > 0
        THEN [s.Players[i] EXCEPT !.cards[1] = c]
        ELSE s.Players[i]]]

\* the first two characters of a Hand
HoleShown(hand) == IF Len(hand) >= 2 THEN SubSeq(hand, 1, 2) ELSE hand

\* the view of seat v (from 0) keeps the hole cards of the others to
\* itself: it is the view of the table with those cards replaced, the
\* others' hands begin with "??", and a folded hand is "??"
Concealed(s, v) ==
  LET view == createClientState(ViewedBy(s, v))
  IN  /\ view.fault = "none"
      /\ (~s.gameOver \/ s.wonByFolds) =>
           /\ view = createClientState(ViewedBy(Masked(s, v, BlankCard), v))
           /\ \A k \in 2..Len(view.Players) :
                view.Players[k].Status = STATUS_PLAYING /\ view.Players[k].Hand # ""
                  => HoleShown(view.Players[k].Hand) = "??"
      /\ \A k \in DOMAIN view.Players :
           view.Players[k].Status = STATUS_FOLDED => view.Players[k].Hand = "??"

\* C27: while a hand is in progress or was won by folds, the view of a
\* seat does not depend on the hole card of any other seat, which is
\* rendered as "??"; a FOLDED seat's hand is always the single "??".
C27_HoleCardsConcealed ==
  \A t \in DOMAIN committed :
    \A v \in 0..(Len(committed[t].Players) - 1) : Concealed(committed[t], v)

\* a hand in its later rounds with two seats playing and one folded, the
\* hole cards of the others not the blank card
C27_Witness ==
  \E t \in DOMAIN committed :
    /\ ~committed[t].gameOver /\ committed[t].Round >= 3
    /\ Cardinality(SeatsWith(committed[t], {STATUS_PLAYING})) >= 2
    /\ SeatsWith(committed[t], {STATUS_FOLDED}) # {}
    /\ \A v \in 0..(Len(committed[t].Players) - 1) :
         Masked(committed[t], v, BlankCard) # committed[t]

(***************************************************************************)
(* Properties of the random source                                         *)
(***************************************************************************)
\* the deck of a table that runs alone on the seed, once its first hand
\* has been dealt: the first shuffle of the source
DeckAlone == Shuffle(NewDeck, SeedKey(0))

\* C28: with a fixed seed a table reaches the states it reaches running
\* alone on that seed, whatever is served for other tables in between: the
\* deck of its first hand is the first shuffle of the seed.
C28_SeededTablesIndependent ==
  \A t \in DOMAIN committed :
    committed[t].Round \in 1..5 => committed[t].deck = DeckAlone

(***************************************************************************)
(* Properties of the valid-move list                                       *)
(***************************************************************************)
\* the codes in the order in which a list can hold them
MoveOrder == <<"FO", "BB", "CH", "CA", "BL", "BH", "RL">>

\* whether the derivation puts move m on the list of a seat with the bet
\* and purse given, facing currentBet in the round given
Derives(m, round, currentBet, bet, purse) ==
  CASE m = "FO" -> currentBet > 0 \/ round > 1
    [] m = "BB" -> currentBet = 0 /\ round = 1
    [] m = "CH" -> currentBet = 0 /\ round > 1
    [] m = "CA" -> currentBet > 0 /\ purse >= currentBet - bet
    [] m = "BL" -> currentBet < LOW /\ round < 3 /\ purse >= LOW
    [] m = "BH" -> currentBet < LOW /\ round > 2 /\ purse >= HIGH
    [] m = "RL" -> currentBet >= LOW /\ purse >= currentBet - bet + LOW
    [] OTHER -> FALSE

Derivation(s) ==
  LET player == s.Players[s.ActivePlayer + 1]
      Listed(m) == Derives(m, s.Round, s.currentBet, player.Bet, player.Purse)
  IN  SelectSeq(MoveOrder, Listed)

\* C29: for the active seat the valid-move list is the derived one, in
\* that order, for every round 1..4, bet to match, seat bet and purse: FO
\* first iff currentBet > 0 or round > 1; under LOW then BB (round 1) or CH
\* (later rounds) at currentBet 0, else CA iff the purse covers the call,
\* then BL iff round < 3 and purse >= LOW, else BH iff round > 2 and purse
\* >= HIGH; from LOW on CA iff the purse covers the call, then RL iff it
\* covers the call and LOW more.
C29_ValidMovesAsDerived ==
  observed # <<>> => observed[1] = Derivation(stateMap["den"])

\* a list with a call but no raise has been computed in a late round
C29_Witness ==
  /\ observed # <<>>
  /\ observed[1] = <<"FO", "CA">>
  /\ stateMap["den"].Round = 4
  /\ stateMap["den"].currentBet >= LOW

(***************************************************************************)
(* Properties of the chips moved by a move                                 *)
(***************************************************************************)
\* the chips of a table: the bet to match, the pot, each seat's bet and purse
ChipsAt(s) ==
  [currentBet |-> s.currentBet, Pot |-> s.Pot,
   seats |-> [i \in DOMAIN s.Players |-> <<s.Players[i].Bet, s.Players[i].Purse>>]]

\* by how much a move is to lift the bet to match standing at currentBet
Rise(move, currentBet) ==
  CASE move = "BB" -> BRINGIN
    [] move = "BL" -> IF currentBet = BRINGIN THEN LOW - BRINGIN ELSE LOW
    [] move = "BH" -> HIGH
    [] move = "CA" -> 0
    [] move = "RL" -> LOW

\* table state s1 follows s by the move of the seat as the accounting asks
Accounted(s, s1, seat, move) ==
  IF move = "CH" THEN ChipsAt(s1) = ChipsAt(s)
  ELSE /\ Len(s1.Players) = Len(s.Players)
       /\ s1.Players[seat + 1].Bet = s1.currentBet
       /\ s.Players[seat + 1].Purse - s1.Players[seat + 1].Purse
            = s1.Players[seat + 1].Bet - s.Players[seat + 1].Bet
       /\ s1.currentBet = s.currentBet + Rise(move, s.currentBet)
       /\ (move = "BL" /\ s.currentBet = BRINGIN => s1.currentBet = LOW)
       /\ s1.Pot = s.Pot
       /\ \A i \in DOMAIN s.Players :
            i # seat + 1 => /\ s1.Players[i].Bet = s.Players[i].Bet
                            /\ s1.Players[i].Purse = s.Players[i].Purse

\* the /move step just taken performed the move m
Performed(m) ==
  /\ last'.route = "move"
  /\ last'.fault = "none"
  /\ Len(last'.moved) = 1
  /\ last'.moved[1].move = m

\* C30: after a successful BB, BL, BH, CA or RL by a seat, the seat's bet
\* equals the new currentBet, its purse has gone down by exactly what its
\* bet went up, currentBet has risen by BRINGIN, LOW, HIGH, 0 and LOW
\* respectively (a BL at currentBet = BRINGIN leaving it at exactly LOW),
\* and no other seat's bet or purse has changed; a CH changes no chips.
C30_MoveAccounting ==
  [][\A m \in {"BB", "BL", "BH", "CA", "RL", "CH"} :
       Performed(m) =>
         \E t \in DOMAIN stateMap :
           /\ t \in DOMAIN stateMap'
           /\ Accounted(stateMap[t], stateMap'[t], last'.moved[1].seat, m)
           /\ \A u \in DOMAIN stateMap \ {t} :
                u \in DOMAIN stateMap' /\ ChipsAt(stateMap'[u]) = ChipsAt(stateMap[u])]_vars

\* a bet of LOW has been made on top of the bring-in
C30_Witness ==
  /\ last.route = "move"
  /\ last.fault = "none"
  /\ Len(last.moved) = 1
  /\ last.moved[1].move = "BL"
  /\ \E t \in DOMAIN stateMap :
       /\ stateMap[t].currentBet = LOW
       /\ \E i \in DOMAIN stateMap[t].Players : stateMap[t].Players[i].Bet = BRINGIN

(***************************************************************************)
(* Properties of the turn                                                  *)
(***************************************************************************)
\* seats passed on the way from seat a to seat b (both from 0) going
\* round a table of n seats, b itself not counted; all the others when b = a
Between(a, b, n) == {(a + k) % n : k \in 1..(((b - a + n - 1) % n))}

\* seat b is the nearest PLAYING seat of s after seat a in cyclic order
NearestPlaying(s, a, b) ==
  /\ ValidSeat(s, b)
  /\ s.Players[b + 1].Status = STATUS_PLAYING
  /\ \A i \in Between(a, b, Len(s.Players)) : s.Players[i + 1].Status # STATUS_PLAYING

\* the /move step just taken performed some move and returned
MoveReturned ==
  /\ last'.route = "move"
  /\ last'.fault = "none"
  /\ Len(last'.moved) = 1

\* C31: a successful FO by the active seat sets its status to FOLDED and
\* leaves currentBet, the pot and every seat's bet and purse as they were;
\* after any successful move the active seat is the nearest seat after the
\* mover, in cyclic seat order, whose status is PLAYING (WAITING, FOLDED and
\* LEFT seats are skipped).
C31_FoldAndNextSeat ==
  [][MoveReturned =>
       LET s == stateMap["den"]
           s1 == stateMap'["den"]
           a == last'.moved[1].seat
       IN  /\ a = s.ActivePlayer
           /\ NearestPlaying(s1, a, s1.ActivePlayer)
           /\ last'.moved[1].move = "FO" =>
                /\ s1.Players[a + 1].Status = STATUS_FOLDED
                /\ ChipsAt(s1) = ChipsAt(s)]_vars

\* a fold has passed the turn over a seat that left to the seat after it
C31_Witness ==
  /\ last.route = "move"
  /\ last.fault = "none"
  /\ Len(last.moved) = 1
  /\ last.moved[1].move = "FO"
  /\ LET s == stateMap["den"]
         a == last.moved[1].seat
     IN  /\ s.Players[a + 1].Status = STATUS_FOLDED
         /\ Between(a, s.ActivePlayer, Len(s.Players)) # {}
         /\ \E i \in Between(a, s.ActivePlayer, Len(s.Players)) :
              s.Players[i + 1].Status = STATUS_LEFT

(***************************************************************************)
(* Properties of the forced move                                           *)
(***************************************************************************)
\* the step function, run on table s now, forces a move of the active seat
Forces(s) ==
  /\ InBetting(s)
  /\ ~roundComplete(s)
  /\ s.Players[s.ActivePlayer + 1].Status = STATUS_PLAYING
  /\ IF s.isMockGame THEN s.Players[s.ActivePlayer + 1].isBot
     ELSE Seconds(s.moveExpires - Now) <= 0

\* the indices the opponent policy may come to for the active seat of s
PolicyChoices(s) ==
  LET player == s.Players[s.ActivePlayer + 1]
      moves == getValidMoves(s)
  IN  IF player.isBot
      THEN {botChoice(s, moves, player.cards, r) : r \in Draws(moves)}
      ELSE {IF Len(moves) > 1 /\ moves[2] = "CH" THEN 1 ELSE 0}

\* C32: whenever a step forces a move (a bot's turn or a human timeout),
\* the index the opponent policy chooses lies within the active seat's
\* valid-move list, whatever the hand, round, purse and currentBet, also
\* when the list has a single entry.
C32_ForcedIndexInBounds ==
  \A t \in DOMAIN committed :
    Forces(committed[t]) =>
      \A choice \in PolicyChoices(committed[t]) :
        choice >= 0 /\ choice < Len(getValidMoves(committed[t]))

\* the /state step just taken forced a move on table t and returned
ForcedOn(t) ==
  /\ last'.route = "state"
  /\ last'.fault = "none"
  /\ last'.moved # <<>>
  /\ t \in DOMAIN committed'
  /\ (t \in DOMAIN committed => committed'[t] # committed[t])

\* C33: within one /state step, after forcing a move the step checks the
\* table again and goes on to force the moves of the following seats whose
\* turns are already due, so that several bots act within one request (up
\* to a cap of 32 rounds of the loop): a step that forced a move leaves no
\* move still to be forced.
C33_StepAbsorbsDueTurns ==
  [][\A t \in DOMAIN committed' :
       ForcedOn(t) => (~Forces(committed'[t]) \/ Len(last'.moved) >= 32)]_vars

(***************************************************************************)
(* Properties of the bets of a round                                       *)
(***************************************************************************)
\* every PLAYING seat of s has put in the bet to match
AllMatched(s) ==
  \A i \in DOMAIN s.Players :
    s.Players[i].Status = STATUS_PLAYING => s.Players[i].Bet = s.currentBet

\* no seat of s has put in more than the bet to match
NoneAhead(s) == \A i \in DOMAIN s.Players : s.Players[i].Bet <= s.currentBet

\* C34: whenever the end-of-round predicate closes a betting round (the
\* step function then advances the round or, in round 4, ends the hand),
\* every PLAYING seat has bet = currentBet, and in every state of a betting
\* round every seat has bet <= currentBet: no PLAYING seat goes on to the
\* next street or to showdown without having matched the bet.
C34_RoundClosesMatched ==
  \A t \in DOMAIN stateMap :
    InBetting(stateMap[t]) =>
      /\ NoneAhead(stateMap[t])
      /\ roundComplete(stateMap[t]) => AllMatched(stateMap[t])

\* a round stands closed after a raise that two other seats called
C34_Witness ==
  \E t \in DOMAIN stateMap :
    /\ InBetting(stateMap[t])
    /\ roundComplete(stateMap[t])
    /\ stateMap[t].currentBet >= HIGH
    /\ Cardinality(SeatsWith(stateMap[t], {STATUS_PLAYING})) >= 3

(***************************************************************************)
(* Properties of the award                                                 *)
(***************************************************************************)
\* the purse in table s of the seat with the name given
PurseIn(s, name) ==
  s.Players[CHOOSE i \in DOMAIN s.Players : s.Players[i].Name = name].Purse

\* the chips added to the purses of the seats of s in the step to s1: what
\* each seat found in both holds more than before
Gains(s, s1) ==
  SumSeq([i \in DOMAIN s1.Players |->
            IF \E j \in DOMAIN s.Players : s.Players[j].Name = s1.Players[i].Name
            THEN Max(0, s1.Players[i].Purse - PurseIn(s, s1.Players[i].Name))
            ELSE 0])

\* table s is in a betting round of a hand
InHand(s) == ~s.gameOver /\ s.Round \in 1..4

\* C35: in each hand the pot is awarded at most once and for no more than
\* was put in: a step adds chips to purses only when it takes the table
\* from a betting round to gameOver -- never while the table is already
\* gameOver, a /leave that runs endGame again included -- and what it adds
\* is at most the pot plus the bets of that hand, so the purses after a
\* hand never sum to more than at its start.
C35_PotAwardedOnce ==
  [][\A t \in DOMAIN stateMap :
       (t \in DOMAIN stateMap' /\ Gains(stateMap[t], stateMap'[t]) > 0)
         => /\ InHand(stateMap[t])
            /\ stateMap'[t].gameOver
            /\ Gains(stateMap[t], stateMap'[t]) <= Held(stateMap[t])]_vars

\* the winner of an ended hand has left and endGame has run a second time,
\* counting the bring-in into the pot again
C35_Witness ==
  \E t \in DOMAIN stateMap :
    /\ last.route = "leave"
    /\ last.fault = "none"
    /\ stateMap[t].gameOver
    /\ stateMap[t].LastResult = WAITING_MESSAGE
    /\ stateMap[t].Pot = 2 * ANTI + 2 * BRINGIN

====
